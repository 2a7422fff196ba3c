------------------------------ MODULE Followers ------------------------------
(***************************************************************************)
(* What every cache and index of the catalog promises, however stale it    *)
(* may be: it holds only what the source had published before it took it.  *)
(***************************************************************************)
CONSTANT Holders

VARIABLES
    published,  \* the versions the source has had
    held        \* held[h]: the versions the holder h has a copy of

Init ==
    /\ published = {}
    /\ held = [h \in Holders |-> {}]

(* The source publishes; a holder drops copies or takes published ones.    *)
Step ==
    /\ published \subseteq published'
    /\ DOMAIN held' = Holders
    /\ \A h \in Holders : held'[h] \subseteq held[h] \cup published

Spec == Init /\ [][Step]_<<published, held>>
=============================================================================
