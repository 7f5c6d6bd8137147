------------------------------- MODULE MCWeb --------------------------------
(***************************************************************************)
(* The web interface on a small instance.                                  *)
(***************************************************************************)
EXTENDS Web

AllAreas == {"endpoints", "certs", "inbox", "endpoint", "newEndpoint", "clone", "networks",
             "users", "scanners", "tags", "jobs", "twofa", "apikeys", "adminkeys", "mail",
             "general", "notify", "templates", "group"}

\* Three events where that stays small, two elsewhere.
Small  == {"newEndpoint", "twofa", "apikeys", "adminkeys", "mail", "general"}
Events == [a \in AllAreas |-> IF a \in Small THEN 3 ELSE 2]

=============================================================================
