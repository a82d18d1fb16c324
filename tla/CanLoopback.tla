---------------------------- MODULE CanLoopback -----------------------------
(***************************************************************************)
(* Frames travel from program to program through two drivers and the bus,  *)
(* and a program that reads one may send it on.  The machines may differ   *)
(* in byte order.  Programs also see the device's status.                  *)
(***************************************************************************)
EXTENDS DeviceStatus

CONSTANTS
  Addresses,  \* The addresses and ...
  Dlcs,       \* ... Dlc bytes programs send,
  Sids,       \* and what another sender's messages may have as sid,
  Eids,       \* as eid and
  WireDlcs    \* as dlc, unused bits included.

ASSUME LoopbackAssumption ==
  /\ Addresses \subseteq 0..(2^29 - 1) /\ Dlcs \subseteq Byte
  /\ Sids \subseteq Byte \X Byte /\ Eids \subseteq Byte \X Byte /\ WireDlcs \subseteq Byte

VARIABLES
  at,      \* Where the frame is: with a program that is to "write" it, or on the
           \* "bus".  "status" if the behaviour is about the device's status.
  frame,   \* The frame a program has.
  wire,    \* The message on USB.
  origin   \* History: who the message is from: "writer", a program that was given
           \* it by a "reader", or an unknown sender on the "bus".

frameVars == <<at, frame, wire, origin>>
loopbackVars == <<frameVars, statusVars>>

NullFrame == [eff |-> FALSE, rtr |-> FALSE, err |-> FALSE, addr |-> 0, dlc |-> 0]
NullWire == [sid |-> <<0, 0>>, eid |-> <<0, 0>>, dlc |-> 0]

LoopbackInit ==
  /\ StatusInit
  /\ \/ /\ at = "write" /\ origin = "writer" /\ wire = NullWire
        /\ \E a \in Addresses, d \in Dlcs, eff, rtr, err \in BOOLEAN :
             frame = [eff |-> eff, rtr |-> rtr, err |-> err, addr |-> a, dlc |-> d]
     \/ /\ at = "bus" /\ origin = "bus" /\ frame = NullFrame
        /\ \E s \in Sids, e \in Eids, d \in WireDlcs : wire = [sid |-> s, eid |-> e, dlc |-> d]
     \/ at = "status" /\ origin = "writer" /\ frame = NullFrame /\ wire = NullWire
  /\ at = "status" \/ asked = CHOOSE rate \in Bitrates : TRUE

\* A program writes its frame, and the bus carries it to another driver.
Write ==
  /\ at = "write"
  /\ \E little \in BOOLEAN : wire' = McbaFormatCanMessage(little, frame)
  /\ at' = "bus"
  /\ UNCHANGED <<frame, origin, statusVars>>

\* That driver's program reads it, and may write it again.
Receive ==
  /\ at = "bus"
  /\ \E little \in BOOLEAN : frame' = ParseCanMessage(little, wire)
  /\ at' = "write" /\ origin' = "reader"
  /\ UNCHANGED <<wire, statusVars>>

\* Frames and status share nothing, so each behaviour follows one of them.
LoopbackNext ==
  \/ Write \/ Receive
  \/ at = "status" /\ StatusNext /\ UNCHANGED frameVars

LoopbackSpec == LoopbackInit /\ [][LoopbackNext]_loopbackVars

-----------------------------------------------------------------------------
(* Correctness. *)

\* Types: sid, eid and Dlc stay within their bytes, whatever a program asks for.
LoopbackTypeOK ==
  /\ at \in {"write", "bus", "status"}
  /\ frame \in Frame /\ wire \in Wire
  /\ origin \in {"writer", "reader", "bus"}
  /\ StatusTypeOK

\* The address that fits the format.
Address(f) == IF f.eff THEN f.addr ELSE f.addr % 2^11

\* A frame is read as it was written: same format and address, the same length if
\* that was legal, and of the same kind, unless the user's Dlc has the bit that
\* makes a frame remote (Device.c 1412).  The message on the bus is that of frame.
ReadAsWritten ==
  [][ at = "bus" /\ origin = "writer" =>
        /\ frame'.eff = frame.eff /\ frame'.addr = Address(frame)
        /\ ~Bit(frame.dlc, 6) => frame'.rtr = frame.rtr
        /\ frame.rtr => frame'.rtr
        /\ frame'.dlc <= 8 /\ (frame.dlc <= 8 => frame'.dlc = frame.dlc) ]_loopbackVars

\* What a program has read it can pass on: the next reader gets the very same
\* frame, also if the bits nobody uses were set in the first message.
PassedOnUnchanged ==
  [][ at = "bus" /\ origin = "reader" => frame' = frame ]_loopbackVars
=============================================================================
