------------------------------- MODULE Layer --------------------------------
(***************************************************************************)
(* What every layer of the warehouse promises of the versions in it, with  *)
(* no jobs, transactions or snapshots: it holds one version of a key, it   *)
(* only advances, it makes nothing up, and what a job was to bring into it *)
(* is in it, or has been overtaken, from then on.                          *)
(* Modules Promotion (core over raw) and Mart (the consumption mart over   *)
(* core) implement this specification.                                     *)
(***************************************************************************)
EXTENDS Integers

CONSTANT Key

Version == Key \X (Nat \ {0})

VARIABLES
  offered,  \* versions in the layer below, as pairs <<key, version>>
  held,     \* the version of each key in this layer, 0 when there is none
  owed      \* versions that a job which is done was to bring

vars == <<offered, held, owed>>

Init ==
  /\ offered = {}
  /\ held = [k \in Key |-> 0]
  /\ owed = {}

\* The layer below gets more versions, in any order.
Offer ==
  /\ offered \subseteq offered'
  /\ offered' \subseteq Version
  /\ UNCHANGED <<held, owed>>

\* A job takes versions that are offered, and any of them may have been owed.
Take ==
  /\ held' \in [Key -> Nat]
  /\ \A k \in Key : /\ held'[k] >= held[k]
                    /\ held'[k] # held[k] => <<k, held'[k]>> \in offered
  /\ owed \subseteq owed'
  /\ owed' \subseteq offered
  /\ \A v \in owed' : held'[v[1]] >= v[2]
  /\ UNCHANGED offered

Next == Offer \/ Take

Spec == Init /\ [][Next]_vars
=============================================================================
