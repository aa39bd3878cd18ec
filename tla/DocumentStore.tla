--------------------------- MODULE DocumentStore ---------------------------
(***************************************************************************)
(* What the document store promises a single client, seen without its two  *)
(* stores, its steps and its rollbacks: a request either takes effect as a *)
(* whole or not at all, and touches only its own documents.  The restore   *)
(* of a backup promises less: a piece whose place is taken is left out,    *)
(* and a restore that fails may have emptied the documents it names.       *)
(***************************************************************************)
CONSTANTS Doc,     \* documents
          Edition, \* editions of the contents of a file
          Pieces   \* the indexed pieces <<place, edition>> of each, a function

VARIABLES content, \* content[d]: the pieces of document d, none if there is no such
          request  \* the request in hand

NoRequest == [op |-> "none", docs |-> {}, pieces |-> {}]

Init ==
    /\ content \in [Doc -> {{}} \union {Pieces[e] : e \in Edition}]
    /\ request = NoRequest

\* A client indexes, deletes or restores documents.
Ask ==
    /\ request = NoRequest /\ UNCHANGED content
    /\ \/ \E d \in Doc, e \in Edition :
            request' = [op |-> "index", docs |-> {d}, pieces |-> Pieces[e]]
       \/ \E D \in (SUBSET Doc) \ {{}} :
            request' = [op |-> "delete", docs |-> D, pieces |-> {}]
       \/ \E D \in (SUBSET Doc) \ {{}}, e \in Edition :
            request' = [op |-> "restore", docs |-> D, pieces |-> Pieces[e]]

Answer(c) == content' = c /\ request' = NoRequest

\* The request is carried out: the pieces asked for, all of them and no others.
Succeed ==
    /\ request.op \in {"index", "delete"}
    /\ Answer([d \in Doc |-> IF d \in request.docs THEN request.pieces ELSE content[d]])

\* It is not.
Fail == request.op # "none" /\ Answer(content)

\* The pieces whose place is free are added to what is there.
Filled(S, P) == S \union {p \in P : \A q \in S : q[1] # p[1]}

Restore ==
    /\ request.op = "restore"
    /\ \/ Answer([d \in Doc |-> IF d \in request.docs THEN Filled(content[d], request.pieces)
                                ELSE content[d]])
       \/ Answer([d \in Doc |-> IF d \in request.docs THEN {} ELSE content[d]])

Next == Ask \/ Succeed \/ Fail \/ Restore

Spec == Init /\ [][Next]_<<content, request>>
============================================================================
