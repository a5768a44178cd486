---------------------------- MODULE MCConfigStore ----------------------------
(***************************************************************************)
(* A device switched on with the file of an early firmware (every older    *)
(* key), edited by hand (a slow rate out of range), or with a complete one *)
(* and a role the nRF52 cannot run; a file of the generation before is     *)
(* pasted.                                                                 *)
(***************************************************************************)
EXTENDS ConfigStore

Early    == [sleep |-> 29, oldPath |-> "WIDE2-1", minutes |-> 10,
             digipeating |-> TRUE, slow |-> 7,
             ssid |-> "home", password |-> "secret", remote |-> TRUE]
Previous == [path |-> "WIDE1-1", minutes |-> 15, digi |-> "wide2",
             ssid |-> "", role |-> "tracker"]
Current  == [sleep |-> 72, path |-> "WIDE2-1", rate |-> 600, digi |-> "off",
             slow |-> 60,
             nets |-> <<[ssid |-> "home", password |-> "secret"],
                        [ssid |-> "club", password |-> "open"]>>,
             role |-> "igate", remote |-> FALSE]

MCEarlyFiles == {Early}
MCFirstFiles == {Early, Current}
MCPastes     == {Previous}

\* What is edited: what a remote write may set too, what an upgrade raises,
\* what the platform may refuse.
MCRate    == {"rate"}
MCRaised  == {"sleep"}
MCRefused == {"rate", "role"}
MCNewValues == [rate |-> {45}, sleep |-> {33}, role |-> {"igate"}]
=============================================================================
