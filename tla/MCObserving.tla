---------------------------- MODULE MCObserving ----------------------------
(***************************************************************************)
(* What observes the folder: the monitor with those who ask it, and the    *)
(* mirror with its stamps.  A behaviour is about one of them, the other    *)
(* stays as it begins.  Nothing tells one file, or one cookie, from        *)
(* another.  Where the process dies no time passes: of the stamps it took  *)
(* a death leaves none, or all of them.                                    *)
(***************************************************************************)
EXTENDS MCMirror, Monitor

VARIABLE subject

observingVars == <<subject, vars, monitorVars>>

ObservingInit ==
  /\ subject \in {"monitor", "mirror"}
  /\ Init /\ MonitorInit
  /\ subject = "monitor" => disk = [p1 \in Path |-> Absent]

ObservingNext ==
  /\ UNCHANGED subject
  /\ IF subject = "mirror" THEN Next ELSE UNCHANGED vars
  /\ IF subject = "monitor" THEN MonitorNext ELSE UNCHANGED monitorVars
  /\ kills' > 0 => now' = 1

ObservingSpec == ObservingInit /\ [][ObservingNext]_observingVars

AllAlike == Alike \union Permutations(File) \union Permutations(Cookie)

=============================================================================
