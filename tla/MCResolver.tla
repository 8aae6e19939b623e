------------------------------ MODULE MCResolver ------------------------------
(* Values for the constants of Resolver that a .cfg cannot write.          *)
EXTENDS Resolver

\* The URL of the first server has a name for its host.
NameThenAddress == <<"name", "ip">>
=============================================================================
