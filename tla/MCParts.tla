------------------------------- MODULE MCParts -------------------------------
(***************************************************************************)
(* The instance TLC checks of the parts of the program that share no state *)
(* in the model: in a behaviour one of them moves, and the others stay as  *)
(* they started.                                                           *)
(***************************************************************************)
EXTENDS MCVfoPanel, SharedCommand, Telemetry, CwKeyboard, MemoryList, MCAntennaPorts,
        FreqControl, Contest, Receiver

Parts == {"VfoPanel", "SharedCommand", "Telemetry", "CwKeyboard", "MemoryList",
          "AntennaPorts", "FreqControl", "Contest", "Receiver"}

VARIABLE part   \* the one that moves

PartsInit ==
    /\ part \in Parts
    /\ Init /\ PointerInit /\ StackInit /\ KeyerInit /\ PortsInit /\ DisplayInit
    /\ ListInit /\ (part # "MemoryList" => arv = <<>> /\ tuned = [freq |-> 1, mode |-> "USB"])
    /\ ReceiverInit
    /\ LogInit /\ (part # "Contest" => server)

\* Part p moves, and no other.
Alone(p) ==
    /\ part = p /\ part' = p
    /\ p # "VfoPanel" => UNCHANGED vars
    /\ p # "SharedCommand" => UNCHANGED pointerVars
    /\ p # "Telemetry" => UNCHANGED stackVars
    /\ p # "CwKeyboard" => UNCHANGED keyerVars
    /\ p # "MemoryList" => UNCHANGED listVars
    /\ p # "AntennaPorts" => UNCHANGED portsVars
    /\ p # "FreqControl" => UNCHANGED displayVars
    /\ p # "Contest" => UNCHANGED logVars
    /\ p # "Receiver" => UNCHANGED receiverVars

PartsNext ==
    \/ Alone("VfoPanel") /\ Next
    \/ Alone("SharedCommand") /\ PointerNext
    \/ Alone("Telemetry") /\ StackNext
    \/ Alone("CwKeyboard") /\ KeyerNext
    \/ Alone("MemoryList") /\ ListNext
    \/ Alone("AntennaPorts") /\ PortsNext
    \/ Alone("FreqControl") /\ DisplayNext
    \/ Alone("Contest") /\ LogNext
    \/ Alone("Receiver") /\ ReceiverNext

PartsSpec == PartsInit /\ [][PartsNext]_<<part, vars, pointerVars, stackVars, keyerVars,
                                          listVars, portsVars, displayVars, logVars, receiverVars>>

-----------------------------------------------------------------------------
\* The type invariants of all parts; those that stay as they started are not looked at again.
PartsTypeOK ==
    CASE part = "VfoPanel"      -> TypeOK
      [] part = "SharedCommand" -> PointerTypeOK
      [] part = "Telemetry"     -> StackTypeOK
      [] part = "CwKeyboard"    -> KeyerTypeOK
      [] part = "MemoryList"    -> ListTypeOK
      [] part = "AntennaPorts"  -> PortsTypeOK
      [] part = "FreqControl"   -> DisplayTypeOK
      [] part = "Contest"       -> LogTypeOK
      [] part = "Receiver"      -> ReceiverTypeOK

(* The other properties are those of the modules, explained there.         *)
=============================================================================
