----------------------------- MODULE MCPlugins -----------------------------
(* One service of the kernel and one tool from outside that requires it.   *)
EXTENDS Plugins

CONSTANTS service, tool

MCServices == {service}
MCTools    == {tool}
MCNeeds    == [f \in {tool} |-> {service}]
=============================================================================
