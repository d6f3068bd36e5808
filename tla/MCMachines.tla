----------------------------- MODULE MCMachines -----------------------------
(***************************************************************************)
(* The values of the constants are in the configurations: sets of names,   *)
(* the smallest in which two of a kind can be told apart where a part has  *)
(* two actors.                                                             *)
(***************************************************************************)
EXTENDS Machines

AllParts == {"firewall", "links", "packages", "repos", "auto", "accounts", "containers", "trust",
             "certs", "command", "terminal", "login", "identity", "services", "keys", "page"}

\* Files of automatic updates: none, keys outside and in another section, a key that is missing,
\* and a section that is there twice.
IniFiles ==
    LET on == Assign("apply_updates", "yes")
        security == Assign("upgrade_type", "security")
    IN  {<<>>, <<on>>, <<Header("commands"), Header("emitters"), on>>,
         <<Header("commands"), on, Header("emitters"), Header("commands"), security>>}
=============================================================================
