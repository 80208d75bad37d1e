------------------------------- MODULE FrpUpdate -------------------------------
(***************************************************************************)
(* scripts/check-frp-update.py, run again and again by a timer or by hand: *)
(* it compares .frp-version with the latest release of frp, verifies the   *)
(* configuration with the local binaries and writes the new version, first *)
(* into docker-compose.yml and then into .frp-version, each file truncated *)
(* and written.  It may be killed at any step.                             *)
(***************************************************************************)
EXTENDS Naturals

CONSTANTS
  Major,    \* bound on the major versions
  Minor     \* bound on the versions within one

ASSUME ConstantsAssumption == Major \in Nat /\ Minor \in Nat

\* A version, as parse_ver returns it, and what a file may hold instead.
Version == (0..Major) \X (0..Minor)
Empty == <<>>
File == Version \union {Empty}
Newer(v, w) == v[1] > w[1] \/ (v[1] = w[1] /\ v[2] > w[2])

VARIABLES
  track,    \* FRP_TRACK
  latest,   \* the latest release, and whether it is a stable one
  compose,  \* the tag in docker-compose.yml
  pinned,   \* .frp-version
  pc,       \* the step of the run under way
  cur, new, \* what it has read and what it goes to
  torn      \* history: a run has ended between truncating and writing a file

vars == <<track, latest, compose, pinned, pc, cur, new, torn>>

First == <<0, 0>>

Init == /\ track \in {"pinned", "patch", "latest"}
        /\ latest = [v |-> First, stable |-> TRUE]
        /\ compose = First /\ pinned = First
        /\ pc = "idle"
        /\ cur = First /\ new = First
        /\ torn = FALSE

\* The next release of frp.
Publish ==
  /\ \E v \in Version, s \in BOOLEAN :
       Newer(v, latest.v) /\ latest' = [v |-> v, stable |-> s]
  /\ UNCHANGED <<track, compose, pinned, pc, cur, new, torn>>

Return == pc' = "idle" /\ cur' = First /\ new' = First

\* Mutant of Start: the current version is taken from docker-compose.yml.
StartFromCompose ==
  /\ pc = "idle" /\ track # "pinned"
  /\ pc' = "fetch" /\ cur' = compose
  /\ UNCHANGED <<track, latest, compose, pinned, new, torn>>

\* read_current.
Start ==
  /\ pc = "idle" /\ track # "pinned"
  /\ pc' = "fetch" /\ cur' = pinned
  /\ UNCHANGED <<track, latest, compose, pinned, new, torn>>

\* Mutant of allowed: any newer version on every track.
allowedAny(c, n) == c # Empty /\ Newer(n, c)

\* parse_ver finds no version in an empty file.
allowed(c, n) == c # Empty /\ Newer(n, c) /\ (track = "patch" => n[1] = c[1])

\* A stable release that the track allows.
Fetch ==
  /\ pc = "fetch" /\ latest.stable /\ allowed(cur, latest.v)
  /\ pc' = "verify" /\ new' = latest.v
  /\ UNCHANGED <<track, latest, compose, pinned, cur, torn>>

\* It ends: no answer, nothing to do, or verify_configs fails; a dry run ends here too.
Ends ==
  /\ \/ pc = "fetch"
     \/ pc = "verify"
     \/ pc = "apply" /\ compose = Empty
  /\ Return
  /\ UNCHANGED <<track, latest, compose, pinned, torn>>

Verified ==
  /\ pc = "verify" /\ pc' = "apply"
  /\ UNCHANGED <<track, latest, compose, pinned, cur, new, torn>>

\* open(COMPOSE_FILE, "w"), after its tag was found.
TruncateCompose ==
  /\ pc = "apply" /\ compose # Empty
  /\ pc' = "compose" /\ compose' = Empty
  /\ UNCHANGED <<track, latest, pinned, cur, new, torn>>

WriteCompose ==
  /\ pc = "compose" /\ pc' = "pin"
  /\ compose' = new
  /\ UNCHANGED <<track, latest, pinned, cur, new, torn>>

TruncatePin ==
  /\ pc = "pin"
  /\ pc' = "version" /\ pinned' = Empty
  /\ UNCHANGED <<track, latest, compose, cur, new, torn>>

WritePin ==
  /\ pc = "version"
  /\ pinned' = new
  /\ Return
  /\ UNCHANGED <<track, latest, compose, torn>>

\* A kill, or an exception while a file is written.
Killed ==
  /\ pc # "idle"
  /\ torn' = (torn \/ pc \in {"compose", "version"})
  /\ Return
  /\ UNCHANGED <<track, latest, compose, pinned>>

Work == \/ Fetch \/ Verified \/ TruncateCompose \/ WriteCompose \/ TruncatePin \/ WritePin

Next == Publish \/ Start \/ Ends \/ Work \/ Killed

Spec == Init /\ [][Next]_vars

\* Runs are started again and again, and a step that may succeed does so sometimes.
FairSpec == /\ Spec /\ WF_vars(Start) /\ WF_vars(Ends)
            /\ SF_vars(Fetch) /\ SF_vars(Verified) /\ SF_vars(TruncateCompose)
            /\ SF_vars(WriteCompose) /\ SF_vars(TruncatePin) /\ SF_vars(WritePin)
------------------------------------------------------------------------------
\* Every variable keeps its type.
TypeOK ==
  /\ track \in {"pinned", "patch", "latest"}
  /\ latest \in [v : Version, stable : BOOLEAN]
  /\ compose \in File /\ pinned \in File
  /\ pc \in {"idle", "fetch", "verify", "apply", "compose", "pin", "version"}
  /\ cur \in File /\ new \in Version
  /\ torn \in BOOLEAN

\* Killed or not, .frp-version never names a version that docker-compose.yml does not
\* have yet, and neither leaves the first major version on the track patch, nor
\* moves at all when pinned.
PinBehind ==
  /\ compose # Empty /\ pinned # Empty => ~Newer(pinned, compose)
  /\ \A f \in {compose, pinned} \ {Empty} :
       /\ track = "patch" => f[1] = First[1]
       /\ track = "pinned" => f = First

Due == latest.stable /\ allowed(pinned, latest.v)

\* A kill between the two files heals: while there is a release the track allows, a
\* later run makes them agree, unless one of them was left empty.
Heals == Due /\ compose # pinned ~> compose = pinned \/ torn \/ ~Due
================================================================================
