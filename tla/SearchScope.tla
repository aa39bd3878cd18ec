----------------------------- MODULE SearchScope -----------------------------
(***************************************************************************)
(* The folder scope of a search in the desktop client: the chips of the    *)
(* Search tab (search_tab.py), the dialog of check boxes over the tree     *)
(* that edits them (search_scope_dialog.py), and the filter that both      *)
(* stores make of them, in which an exclusion always wins                  *)
(* (retriever_v2.py, lancedb_adapter.py).                                  *)
(***************************************************************************)
EXTENDS FiniteSets

CONSTANTS Folders,   \* folders of the tree
          Above      \* the folders above each, strictly (is_path_under)

\* The folders above a folder are in line, and there are finitely many.
ASSUME ScopeAssumption ==
  /\ Above \in [Folders -> SUBSET Folders] /\ \A f \in Folders : IsFiniteSet(Above[f])
  /\ \A f \in Folders : f \notin Above[f] /\ \A g \in Above[f] : Above[g] \subseteq Above[f]
  /\ \A f \in Folders : \A g, h \in Above[f] : g = h \/ g \in Above[h] \/ h \in Above[g]

VARIABLES chips,    \* _scope_includes, _scope_excludes
          dialog    \* open, mode and overrides of the dialog's ScopeSelection

scopeVars == <<chips, dialog>>

NoOverrides == [f \in {} |-> TRUE]
ScopeInit ==
  /\ chips = [includes |-> {}, excludes |-> {}]
  /\ dialog = [open |-> FALSE, mode |-> "all", overrides |-> NoOverrides]

Within(f, S) == S \cap (Above[f] \cup {f}) # {}
Below(f) == {g \in Folders : f \in Above[g]}

\* The filter: path_prefixes if there are any, without excluded_path_prefixes.
Searched(scope, f) ==
  (scope.includes = {} \/ Within(f, scope.includes)) /\ ~Within(f, scope.excludes)

-----------------------------------------------------------------------------
\* The chips.

\* add_scope_include: exclusions that would win over the new inclusion go.
Included(s, f) ==
  [includes |-> s.includes \cup {f}, excludes |-> s.excludes \ (Above[f] \cup {f})]

\* add_scope_exclude: inclusions it would win over go.
Excluded(s, f) ==
  [includes |-> s.includes \ (Below(f) \cup {f}), excludes |-> s.excludes \cup {f}]

Removed(s, f, exclude) ==
  IF exclude THEN [s EXCEPT !.excludes = @ \ {f}] ELSE [s EXCEPT !.includes = @ \ {f}]

EditChips ==
  /\ ~dialog.open /\ UNCHANGED dialog
  /\ \/ \E f \in Folders : chips' \in {Included(chips, f), Excluded(chips, f)}
     \/ \E f \in chips.includes : chips' = Removed(chips, f, FALSE)
     \/ \E f \in chips.excludes : chips' = Removed(chips, f, TRUE)
     \/ chips' = [includes |-> {}, excludes |-> {}]

-----------------------------------------------------------------------------
\* ScopeSelection.

Default(d) == d.mode = "all"
Nearest(S) == CHOOSE f \in S : S \subseteq Above[f] \cup {f}
StateOf(d, S) == IF S = {} THEN Default(d) ELSE d.overrides[Nearest(S)]

Effective(d, f) == StateOf(d, DOMAIN d.overrides \cap (Above[f] \cup {f}))
Inherited(d, f) == StateOf(d, DOMAIN d.overrides \cap Above[f])
DisplayState(d, f) ==
  IF \E g \in Below(f) \cap DOMAIN d.overrides : d.overrides[g] # Effective(d, f)
  THEN "partial" ELSE IF Effective(d, f) THEN "checked" ELSE "unchecked"

\* from_scope: excludes are entered last.
FromScope(s) ==
  [open |-> TRUE, mode |-> IF s.includes = {} THEN "all" ELSE "selected",
   overrides |-> [f \in s.includes \cup s.excludes |-> f \notin s.excludes]]

Desired(d, f) == DisplayState(d, f) # "checked"

\* Mutant: a folder inside an excluded one may be checked again.
MutBlocked(d, f) == FALSE

\* A folder inside an excluded one cannot be checked.
Blocked(d, f) ==
  /\ Desired(d, f) /\ DOMAIN d.overrides \cap Above[f] # {}
  /\ ~d.overrides[Nearest(DOMAIN d.overrides \cap Above[f])]

\* toggle: whatever was decided below the folder is forgotten.
Toggled(d, f) ==
  LET kept == DOMAIN d.overrides \ (Below(f) \cup {f})
      now == IF Desired(d, f) = Inherited(d, f) THEN kept ELSE kept \cup {f}
  IN [d EXCEPT !.overrides = [g \in now |-> IF g = f THEN Desired(d, f) ELSE d.overrides[g]]]

Compile(d) ==
  LET boundary == {f \in DOMAIN d.overrides : d.overrides[f] # Inherited(d, f)}
  IN [includes |-> {f \in boundary : d.overrides[f]},
      excludes |-> {f \in boundary : ~d.overrides[f]}]

IsEmptySelection(d) ==
  d.mode = "selected" /\ \A f \in DOMAIN d.overrides : ~d.overrides[f]

-----------------------------------------------------------------------------
\* The dialog, which is modal.

OpenScopeDialog == ~dialog.open /\ dialog' = FromScope(chips) /\ UNCHANGED chips

Toggle ==
  /\ dialog.open /\ UNCHANGED chips
  /\ \E f \in Folders : ~Blocked(dialog, f) /\ dialog' = Toggled(dialog, f)

\* The radio buttons; set_mode forgets every decision, Reset keeps the mode.
SetMode ==
  /\ dialog.open /\ UNCHANGED chips
  /\ \E m \in {"all", "selected"} \ {dialog.mode} :
       dialog' = [dialog EXCEPT !.mode = m, !.overrides = NoOverrides]
Reset ==
  /\ dialog.open /\ dialog' = [dialog EXCEPT !.overrides = NoOverrides] /\ UNCHANGED chips

CloseScopeDialog ==
  /\ dialog.open
  /\ dialog' = [open |-> FALSE, mode |-> "all", overrides |-> NoOverrides]
  /\ \/ ~IsEmptySelection(dialog) /\ chips' = Compile(dialog)
     \/ UNCHANGED chips

ScopeNext == EditChips \/ OpenScopeDialog \/ Toggle \/ SetMode \/ Reset \/ CloseScopeDialog
ScopeSpec == ScopeInit /\ [][ScopeNext]_scopeVars

-----------------------------------------------------------------------------
\* The variables have their types.
ScopeTypeOK ==
  /\ chips \in [includes : SUBSET Folders, excludes : SUBSET Folders]
  /\ dialog.open \in BOOLEAN /\ dialog.mode \in {"all", "selected"}
  /\ DOMAIN dialog.overrides \subseteq Folders
  /\ \A f \in DOMAIN dialog.overrides : dialog.overrides[f] \in BOOLEAN

\* search_tab.py:188-189: the chips never show a scope that silently matches
\* nothing, through any sequence of menu entries, removed chips and accepted
\* dialogs: an included folder is searched.
ChipsAreAlive == \A f \in chips.includes : ~Within(f, chips.excludes)

\* What the dialog shows is what is searched: on opening, the check marks are
\* the folders the chips select; whenever it can be accepted, the folders that
\* appear checked are the ones the compiled prefix lists select.
DialogIsHonest ==
  /\ \A f \in Folders : Effective(FromScope(chips), f) <=> Searched(chips, f)
  /\ dialog.open /\ ~IsEmptySelection(dialog)
       => \A f \in Folders : Effective(dialog, f) <=> Searched(Compile(dialog), f)

\* Chips and dialog say what is searched.
ScopeIsHonest == ChipsAreAlive /\ DialogIsHonest
=============================================================================
