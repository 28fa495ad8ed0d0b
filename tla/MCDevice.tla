------------------------------ MODULE MCDevice ------------------------------
(***************************************************************************)
(* The parts of the device between the outside and its sessions and run,   *)
(* each on its own: the Bluetooth link, the send rate, the front panel,    *)
(* the console, and the board its provisioning steps write; and the page   *)
(* at the other end of the link, with the settings it edits. A behaviour   *)
(* is of one of them, with the others left as they begin.                  *)
(***************************************************************************)
EXTENDS DeviceLink, Pacing, FrontPanel, ProvisionConsole, ProvisionSteps, WebPage, WebConfigure

VARIABLE part   \* the part this behaviour is of

airVars == <<linkVars, pacingVars>>
setupVars == <<panelVars, conVars, stepVars>>
webVars == <<pageVars, configureVars>>
vars == <<part, airVars, setupVars, webVars>>

(* A board's disk, a system's software, and its chips.                     *)
MCSelections ==
    {{"disk", "encryption", "overlay"}, {"disk", "software", "tailscale"}, {"eeprom", "bootloader"}}

(* A network of two candidates, which another session adds to and orders.  *)
MCFirstHeld == <<"x">>
MCOthers == {<<"y", "x">>}

SomeBoard == chosen = {"eeprom", "bootloader"} /\ rt.image = "other" /\ eeprom = "blank"

Init ==
    /\ part \in {"link", "pacing", "panel", "console", "steps", "page", "configure"}
    /\ LinkInit /\ PacingInit /\ PanelInit /\ ConInit /\ StepsInit /\ PageInit /\ ConfigureInit
    /\ part # "steps" => SomeBoard

Next ==
    /\ part' = part
    /\ \/ /\ UNCHANGED <<setupVars, webVars>>
          /\ \/ part = "link" /\ LinkNext /\ UNCHANGED pacingVars
             \/ part = "pacing" /\ PacingNext /\ UNCHANGED linkVars
       \/ /\ UNCHANGED <<airVars, webVars>>
          /\ \/ part = "panel" /\ PanelNext /\ UNCHANGED <<conVars, stepVars>>
             \/ part = "console" /\ ConNext /\ UNCHANGED <<panelVars, stepVars>>
             \/ part = "steps" /\ StepsNext /\ UNCHANGED <<panelVars, conVars>>
       \/ /\ UNCHANGED <<airVars, setupVars>>
          /\ \/ part = "page" /\ PageNext /\ UNCHANGED configureVars
             \/ part = "configure" /\ ConfigureNext /\ UNCHANGED pageVars

Spec == Init /\ [][Next]_vars
=============================================================================
