--------------------------- MODULE ExclusiveLocks ---------------------------
(***************************************************************************)
(* What the locks on documents promise, seen without their table, their    *)
(* transactions and their clean-ups: a document has one holder at most; a  *)
(* client becomes the holder only of a document that has none, or again of *)
(* its own, and from then for no longer than it asks; it stays the holder  *)
(* until it, or an administrator, ends that or its time is over.  What a   *)
(* client is told of its hold is so.                                       *)
(***************************************************************************)
EXTENDS Integers

CONSTANTS Clients,      \* client ids
          Uris,         \* documents that may be locked
          TTLs,         \* lengths of a lock a client may ask for
          NoHolder      \* nobody holds the document

VARIABLES now,          \* the time
          holder,       \* who holds each document, and until when
          told          \* until when each client was told it holds a document, 0 if not

Init ==
  /\ now = 1
  /\ holder = [u \in Uris |-> NoHolder]
  /\ told = [c \in Clients |-> [u \in Uris |-> 0]]

\* A client takes a document nobody holds, or renews its hold.
Take(c, u) ==
  /\ holder[u] # NoHolder => holder[u].client = c
  /\ \E ttl \in TTLs : \E t \in (now + 1) .. (now + ttl) :
       /\ holder' = [holder EXCEPT ![u] = [client |-> c, until |-> t]]
       /\ told' = [told EXCEPT ![c][u] = t]
  /\ UNCHANGED now

\* The holder releases it, renews it for a time that is over, or loses it to an
\* administrator.
End(u) ==
  /\ holder[u] # NoHolder
  /\ holder' = [holder EXCEPT ![u] = NoHolder]
  /\ told' = [told EXCEPT ![holder[u].client][u] = 0]
  /\ UNCHANGED now

Pass ==
  /\ now' = now + 1
  /\ holder' = [u \in Uris |-> IF holder[u] # NoHolder /\ holder[u].until > now'
                               THEN holder[u] ELSE NoHolder]
  /\ told' = [c \in Clients |-> [u \in Uris |-> IF told[c][u] > now' THEN told[c][u] ELSE 0]]

Next ==
  \/ \E c \in Clients, u \in Uris : Take(c, u)
  \/ \E u \in Uris : End(u)
  \/ Pass

Spec == Init /\ [][Next]_<<now, holder, told>>
=============================================================================
