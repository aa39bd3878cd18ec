------------------------------ MODULE Licences ------------------------------
(***************************************************************************)
(* Licence keys: the stack of keys in server_settings with the single key  *)
(* it grew out of (server_settings_store.py), the key file the desktop     *)
(* application writes (license_service.py), the licence the API holds      *)
(* (license.py) and the overage that license_overage.py shows.             *)
(*                                                                         *)
(* A key is its kid and its seats; org, edition and dates are left out but *)
(* for whether the key has expired.  Handlers await nothing after the body *)
(* has been read, so each is a step; the transactions inside it can fail   *)
(* one by one.                                                             *)
(***************************************************************************)
EXTENDS Rankings, SequencesExt

CONSTANTS Kids, Seats, NoKid, NoKey,
          Torn,          \* a key file without a key
          MaxStack,      \* bound: keys on the stack
          MaxActive,     \* bound: active users
          MaxTurns,     \* bound: installations, removals, expiries, changes of users
          MaxSlips       \* bound: failed reads, writes and copies

Key == [kid : Kids \cup {NoKid}, seats : Seats]

ASSUME LicenceAssumption ==
  /\ Seats \subseteq Nat \ {0} /\ NoKid \notin Kids /\ NoKey \notin Key
  /\ {MaxStack, MaxActive, MaxTurns, MaxSlips} \subseteq Nat

VARIABLES stack,      \* server_settings.license_keys
          legacy,     \* server_settings.license_key
          file,       \* license.key
          backup,     \* license.key.bak
          expired,    \* keys whose time is over
          licence,    \* _current_license
          seated,     \* active users
          cache,      \* _OverageCache
          stale,      \* is_stale
          drift,      \* something the cache is not told of has happened
          promised,   \* keys whose installation was acknowledged, not removed since
          turns, slips

licenceVars == <<stack, legacy, file, backup, expired, licence, seated, cache, stale,
                 drift, promised, turns, slips>>

NoKeyLoaded == [team |-> FALSE, seats |-> -1]
NoLicence == [team |-> FALSE, seats |-> 0]
NoOverage == [overage |-> 0, licensed |-> 0]
Slip == {"read", "lingers", "copy"}

LicenceInit ==
  /\ stack = <<>> /\ legacy \in Key \cup {NoKey}
  /\ file \in Key \cup {NoKey} /\ backup = NoKey
  /\ expired = {} /\ seated = 0
  /\ licence = NoKeyLoaded /\ cache = NoOverage
  /\ stale = TRUE /\ drift = TRUE
  /\ promised = {legacy} \cap Key
  /\ turns = 0 /\ slips = <<>>

-----------------------------------------------------------------------------
Turn == turns < MaxTurns /\ turns' = turns + 1

\* get_server_license_keys: the keys it returns, what it leaves in the two
\* settings, and the slips on the way.
Outcome(keys, s, l, f) == [keys |-> keys, stack |-> s, legacy |-> l, slips |-> f]

\* A slip for KeysKept: the single key is deleted before the stack is written.
MutMigrated(s, l) ==
  {Outcome(<<l>>, <<l>>, NoKey, <<>>), Outcome(<<l>>, s, NoKey, <<"lingers">>)}

\* The single key becomes the stack, then it is deleted; either may fail, and the
\* failure is swallowed.
Migrated(s, l) ==
  {Outcome(<<l>>, <<l>>, NoKey, <<>>),
   Outcome(<<l>>, <<l>>, l, <<"lingers">>),
   Outcome(<<l>>, s, l, <<"lingers">>)}

\* A setting that cannot be read is a setting that is not there.
ReadKeys(s, l) ==
  IF s # <<>>
  THEN {Outcome(s, s, l, <<>>), Outcome(<<>>, s, l, <<"read">>)}
       \cup {[o EXCEPT !.slips = <<"read">> \o @] :
               o \in IF l = NoKey THEN {} ELSE Migrated(s, l)}
  ELSE IF l # NoKey
  THEN Migrated(s, l) \cup {Outcome(<<>>, s, l, <<"read">>)}
  ELSE {Outcome(<<>>, s, l, <<>>)}

\* What it returns when nothing fails.
Stored == IF stack # <<>> THEN stack ELSE IF legacy # NoKey THEN <<legacy>> ELSE <<>>

-----------------------------------------------------------------------------
\* validate_license_key, of a key whose claims and signature are in order.
Validates(k) == k \notin expired

\* load_all_licenses, of the keys read and the file.
Raw(keys) == IF file \in Key /\ file \notin ToSet(keys) THEN Append(keys, file) ELSE keys

\* The seats of all the keys together: a place at a key is a seat.
SeatsOf(keys) == Cardinality(UNION {{i} \X (1 .. keys[i].seats) : i \in DOMAIN keys})

Aggregate(keys) ==
  LET raw == Raw(keys)
      valid == Picked(raw, {i \in DOMAIN raw : Validates(raw[i])})
  IN IF \A k \in ToSet(valid) : k.kid = NoKid THEN NoLicence
     ELSE [team |-> TRUE, seats |-> SeatsOf(valid)]

Slipped(f) ==
  /\ Len(slips) + Len(f) <= MaxSlips
  /\ slips' = slips \o f

\* reset_license, load_all_licenses, set_current_license on settings s and l.
LoadFrom(s, l, f) == \E o \in ReadKeys(s, l) :
  /\ stack' = o.stack /\ legacy' = o.legacy
  /\ licence' = Aggregate(o.keys)
  /\ Slipped(f \o o.slips)

\* A slip for OverageFollowsLicence: the cache is not told of the new licence.
MutInvalidated == stale

\* invalidate_overage_cache.
Invalidated == TRUE

SameKid(k, keys) == k.kid # NoKid /\ \E i \in DOMAIN keys : keys[i].kid = k.kid

\* POST /license/install; a key that has expired is not valid.
InstallAdd(k) ==
  /\ Turn /\ Validates(k)
  /\ \E o \in ReadKeys(stack, legacy) :
       LET new == IF SameKid(k, o.keys) THEN o.stack ELSE Append(o.keys, k)
       IN Len(new) <= MaxStack /\ LoadFrom(new, o.legacy, o.slips)
  /\ stale' = Invalidated
  /\ promised' = promised \cup {k}
  /\ UNCHANGED <<file, backup, expired, seated, cache, drift>>

InstallReplace(k) ==
  /\ Turn /\ Validates(k)
  /\ LoadFrom(<<k>>, legacy, <<>>)
  /\ stale' = Invalidated
  /\ promised' = {k}
  /\ UNCHANGED <<file, backup, expired, seated, cache, drift>>

\* DELETE /license/{kid}; 404 when no key has it.
RemoveKey(kid) ==
  /\ Turn
  /\ \E o \in ReadKeys(stack, legacy) :
       LET left == Picked(o.keys, {i \in DOMAIN o.keys : o.keys[i].kid # kid})
       IN IF left = o.keys
          THEN /\ stack' = o.stack /\ legacy' = o.legacy /\ Slipped(o.slips)
               /\ UNCHANGED <<licence, stale, promised>>
          ELSE /\ LoadFrom(left, o.legacy, o.slips)
               /\ stale' = Invalidated
               /\ promised' = {k \in promised : k.kid # kid}
  /\ UNCHANGED <<file, backup, expired, seated, cache, drift>>

\* GET /license/keys.
ListKeys ==
  /\ \E o \in ReadKeys(stack, legacy) :
       stack' = o.stack /\ legacy' = o.legacy /\ Slipped(o.slips)
  /\ UNCHANGED <<file, backup, expired, licence, seated, cache, stale, drift, promised, turns>>

\* POST /license/reload: the overage is not computed again.
Reload ==
  /\ LoadFrom(stack, legacy, <<>>) /\ drift' = TRUE
  /\ UNCHANGED <<file, backup, expired, seated, cache, stale, promised,
                 turns>>

\* The API starts: api.py loads the licence.  On a machine that has just been booted
\* the empty cache passes for fresh.
StartApi ==
  /\ LoadFrom(stack, legacy, <<>>)
  /\ cache' = NoOverage /\ stale' \in BOOLEAN /\ drift' = TRUE
  /\ UNCHANGED <<file, backup, expired, seated, promised, turns>>

-----------------------------------------------------------------------------
\* LicenseOverageMiddleware: any response refreshes a stale cache; when the
\* refresh fails the old values stand for another while, and when the count of
\* users fails they are none.
Excess(l, n) == [overage |-> IF l.team /\ n > l.seats THEN n - l.seats ELSE 0,
                 licensed |-> IF l.team THEN l.seats ELSE 0]

Respond ==
  /\ stale /\ stale' = FALSE
  /\ \/ cache' = Excess(licence, seated) /\ drift' = FALSE /\ UNCHANGED slips
     \/ cache' \in {cache, Excess(licence, 0)} /\ drift' = TRUE /\ Slipped(<<"read">>)
  /\ UNCHANGED <<stack, legacy, file, backup, expired, licence, seated, promised, turns>>

CacheAges ==
  /\ ~stale /\ stale' = TRUE
  /\ UNCHANGED <<stack, legacy, file, backup, expired, licence, seated, cache, drift,
                 promised, turns, slips>>

\* Nobody tells the cache of new users, nor the licence of a key that expires.
ActiveChanges ==
  /\ Turn /\ seated' \in {seated - 1, seated + 1} \cap (0 .. MaxActive) /\ drift' = TRUE
  /\ UNCHANGED <<stack, legacy, file, backup, expired, licence, cache, stale, promised, slips>>

Expires(k) ==
  /\ Turn /\ Validates(k) /\ expired' = expired \cup {k}
  /\ UNCHANGED <<stack, legacy, file, backup, licence, seated, cache, stale, drift,
                 promised, slips>>

-----------------------------------------------------------------------------
\* LicenseService.install_license: back the file up, write it, and copy the backup
\* back when the write fails.
BackedUp == IF file = NoKey THEN backup ELSE file

InstallFile(k) ==
  /\ Turn /\ Validates(k)
  /\ \E copied, written, restored \in BOOLEAN :
       /\ (file = NoKey => copied) /\ (written => restored)
       /\ backup' = IF copied THEN BackedUp ELSE backup
       /\ LET try == file # NoKey /\ backup' # NoKey
          IN /\ ~try => restored
             /\ file' = IF written THEN k ELSE IF try /\ restored THEN backup' ELSE Torn
       /\ Slipped((IF copied THEN <<>> ELSE <<"copy">>)
                  \o (IF written THEN <<>> ELSE <<"read">>)
                  \o (IF restored THEN <<>> ELSE <<"copy">>))
  /\ UNCHANGED <<stack, legacy, expired, licence, seated, cache, stale, drift, promised>>

\* Requests are served once the API has started.
Served ==
  \/ \E k \in Key : InstallAdd(k) \/ InstallReplace(k)
  \/ \E kid \in Kids : RemoveKey(kid)
  \/ ListKeys \/ Reload \/ Respond

LicenceNext ==
  \/ licence # NoKeyLoaded /\ Served
  \/ \E k \in Key : InstallFile(k) \/ Expires(k)
  \/ StartApi \/ CacheAges \/ ActiveChanges

LicenceSpec == LicenceInit /\ [][LicenceNext]_licenceVars

-----------------------------------------------------------------------------
NoneOf(f) == \A i \in DOMAIN slips : slips[i] # f

\* A key whose installation was acknowledged is on the stack, it or another of the
\* same kid, until it is removed or replaced: through the migration of the single
\* key, whatever part of it fails, as long as every setting could be read.
KeysKept ==
  NoneOf("read") => \A k \in promised : k \in ToSet(Stored) \/ SameKid(k, Stored)

\* While the cache passes for fresh, the overage it shows is that of the licence in
\* use: every installation and removal reaches it.
OverageFollowsLicence == ~stale /\ ~drift => cache = Excess(licence, seated)

\* The variables have their types.
LicenceTypeOK ==
  /\ stack \in Seq(Key) /\ legacy \in Key \cup {NoKey}
  /\ {file, backup} \subseteq Key \cup {NoKey, Torn}
  /\ expired \subseteq Key /\ promised \subseteq Key
  /\ licence \in [team : BOOLEAN, seats : Nat \cup {-1}]
  /\ cache \in [overage : Nat, licensed : Nat] /\ seated \in 0 .. MaxActive
  /\ stale \in BOOLEAN /\ drift \in BOOLEAN
  /\ turns \in Nat /\ slips \in Seq(Slip)
=============================================================================
