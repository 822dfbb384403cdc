----------------------------- MODULE MCRealmGC -----------------------------
(* Model-checking instances of RealmGC.                                    *)
EXTENDS RealmGC

=============================================================================
