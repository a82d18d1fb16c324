---------------------------- MODULE DeviceStatus ----------------------------
(***************************************************************************)
(* What the driver keeps of the device's keep-alive messages, and the      *)
(* control codes that set, clear and return it.  Messages are handled by   *)
(* the completion routines of two transfers, so they may be overtaken.     *)
(* There is no lock: each access to shared memory is a step, and what is   *)
(* stored and read again is either loaded again or kept in a register, as  *)
(* the compiler likes.  Machines of either byte order may take turns.      *)
(***************************************************************************)
EXTENDS CanCodec

CONSTANTS
  Readers,    \* The processors on which transfers complete.
  Requested,  \* The bit rates programs change to.
  Lost,       \* What the device may report as rx_lost: two bytes, the lower one first.
  MaxReports  \* Bound: keep-alive messages.

ASSUME StatusAssumption ==
  Requested \subseteq Bitrates /\ Lost \subseteq Byte \X Byte /\ MaxReports \in Nat

VARIABLES
  setting,     \* The device's bit rate, as two bytes of a message.
  reports,     \* How many keep-alive messages it has sent.
  Bitrate,     \* DeviceStatus.Bitrate.
  RxLost,      \* DeviceStatus.Stats.RxLost (64 bits, unlike the message's 16; the
               \* other four statistics are single bytes, added in the same way).
  Termination, \* DeviceStatus.TerminationEnabled, with the versions.
  keepAlive,   \* Each reader in McbaProcessKeepAliveCan: its next step, the bytes of
               \* the bit rate and the losses in its message, the rate it has in a
               \* register, whether it found it cut short, the sum it loaded, and
               \* (history) whether it has met another reader on the statistics.
  asked,       \* History: the bit rate that was set last, ...
  reported,    \* ... the bytes that were stored last, ...
  rateRaced,   \* ... whether two readers met on the rate since a reader was alone,
  certain,     \* what readers who met nobody have added since the last clear, ...
  losses       \* ... and all that was added since a clear that found no reader adding.

rateVars == <<Bitrate, reported, rateRaced>>
statsVars == <<RxLost, certain, losses>>
bitrateVars == <<setting, asked>>
statusVars == <<bitrateVars, reports, rateVars, statsVars, Termination, keepAlive>>

NoReport == [step |-> "none", bytes |-> <<0, 0>>, lost |-> <<0, 0>>, rate |-> 0,
             short |-> FALSE, sum |-> 0, met |-> FALSE]

StatusInit ==
  /\ asked \in Bitrates
  /\ setting = FormatBitrate(TRUE, asked)
  /\ reports = 0 /\ Bitrate = 0 /\ RxLost = 0 /\ Termination = FALSE
  /\ keepAlive = [r \in Readers |-> NoReport]
  /\ reported = <<0, 0>> /\ rateRaced = FALSE
  /\ certain = 0 /\ losses = 0

\* Between the first and the last access to the rate, ...
Rating(r) == keepAlive[r].step \in {"is33", "is83", "times", "scaled"}

\* ... and to the sum.
Adding(r) == keepAlive[r].step = "add"

Others(r) == Readers \ {r}

-----------------------------------------------------------------------------
(* Control codes. *)

\* MCBA_IOCTL_DEVICE_BITRATE_SET: the device adopts the rate it is sent.
BitrateSet(rate) ==
  /\ \E little \in BOOLEAN : setting' = FormatBitrate(little, rate)
  /\ asked' = rate
  /\ UNCHANGED <<reports, rateVars, statsVars, Termination, keepAlive>>

\* MCBA_IOCTL_DEVICE_STATS_CLEAR.
StatsClear ==
  /\ RxLost' = 0
  /\ certain' = 0
  /\ losses' = IF \E r \in Readers : Adding(r) THEN losses ELSE 0
  /\ UNCHANGED <<bitrateVars, reports, rateVars, Termination, keepAlive>>

-----------------------------------------------------------------------------
(* McbaProcessKeepAliveCan, by reader r. *)

\* The device sends its message, which completes a transfer.
Report(r, lost) ==
  /\ keepAlive[r] = NoReport /\ reports < MaxReports
  /\ reports' = reports + 1
  /\ keepAlive' = [keepAlive EXCEPT ![r].step = "store", ![r].bytes = setting, ![r].lost = lost]
  /\ UNCHANGED <<bitrateVars, rateVars, statsVars, Termination>>

\* The rate in kbit/s is stored as if it were in bit/s, ...
StoreRate(r) ==
  /\ keepAlive[r].step = "store"
  /\ \E little \in BOOLEAN : Bitrate' = ReadUnalignedBigEndian16(little, keepAlive[r].bytes)
  /\ keepAlive' = [keepAlive EXCEPT ![r].step = "is33", ![r].rate = Bitrate']
  /\ reported' = keepAlive[r].bytes
  /\ rateRaced' = (\E q \in Others(r) : Rating(q))
  /\ UNCHANGED <<bitrateVars, reports, statsVars, Termination>>

\* ... read again (each time from memory, or as it is in the register) to compare
\* it with the first and, if that fails, with the second that is cut short, ...
CompareRate(r) ==
  /\ \E seen \in {Bitrate, keepAlive[r].rate} :
       \/ /\ keepAlive[r].step = "is33"
          /\ keepAlive' = [keepAlive EXCEPT ![r].step = IF seen = 33 THEN "times" ELSE "is83",
                                            ![r].rate = seen, ![r].short = (seen = 33)]
       \/ /\ keepAlive[r].step = "is83"
          /\ keepAlive' = [keepAlive EXCEPT ![r].step = "times",
                                            ![r].rate = seen, ![r].short = (seen = 83)]
  /\ UNCHANGED <<bitrateVars, reports, rateVars, statsVars, Termination>>

\* ... and once more to scale it, ...
ScaleRate(r) ==
  /\ keepAlive[r].step = "times"
  /\ \E seen \in {Bitrate, keepAlive[r].rate} :
       keepAlive' = [keepAlive EXCEPT ![r].step = "scaled",
                                      ![r].rate = Scaled(seen, keepAlive[r].short)]
  /\ UNCHANGED <<bitrateVars, reports, rateVars, statsVars, Termination>>

\* ... and stored as it should be.
StoreScaled(r) ==
  /\ keepAlive[r].step = "scaled"
  /\ Bitrate' = keepAlive[r].rate
  /\ keepAlive' = [keepAlive EXCEPT ![r] = [NoReport EXCEPT !.step = "load", !.lost = keepAlive[r].lost]]
  /\ UNCHANGED <<bitrateVars, reports, reported, rateRaced, statsVars, Termination>>

\* Stats.RxLost += LittleEndianToHost(le), where another reader may be adding too.
LoadStats(r) ==
  LET met == \E q \in Others(r) : Adding(q) IN
  /\ keepAlive[r].step = "load"
  /\ keepAlive' = [q \in Readers |->
       IF q = r THEN [keepAlive[r] EXCEPT !.step = "add", !.sum = RxLost, !.met = met]
       ELSE IF Adding(q) THEN [keepAlive[q] EXCEPT !.met = TRUE] ELSE keepAlive[q]]
  /\ UNCHANGED <<bitrateVars, reports, rateVars, statsVars, Termination>>

\* What the device means by the two bytes.
Meant(lost) == lost[1] + 256 * lost[2]

AddStats(r) ==
  /\ keepAlive[r].step = "add"
  /\ \E little \in BOOLEAN :
       RxLost' = keepAlive[r].sum + ReadUnalignedLittleEndian16(little, keepAlive[r].lost)
  /\ certain' = IF keepAlive[r].met THEN certain ELSE certain + Meant(keepAlive[r].lost)
  /\ losses' = losses + Meant(keepAlive[r].lost)
  /\ keepAlive' = [keepAlive EXCEPT ![r] = NoReport]
  /\ UNCHANGED <<bitrateVars, reports, rateVars, Termination>>

\* McbaProcessKeepAliveUsb.
KeepAliveUsb(state) ==
  /\ Termination' = state
  /\ UNCHANGED <<bitrateVars, reports, rateVars, statsVars, keepAlive>>

StatusNext ==
  \/ \E rate \in Requested : BitrateSet(rate)
  \/ StatsClear
  \/ \E r \in Readers :
       \/ \E lost \in Lost : Report(r, lost)
       \/ StoreRate(r) \/ CompareRate(r) \/ ScaleRate(r) \/ StoreScaled(r)
       \/ LoadStats(r) \/ AddStats(r)
  \/ \E state \in BOOLEAN : KeepAliveUsb(state)

-----------------------------------------------------------------------------
(* Correctness. *)

\* Types.
StatusTypeOK ==
  /\ asked \in Bitrates /\ setting \in Byte \X Byte /\ reports \in 0..MaxReports
  /\ Bitrate \in Nat /\ RxLost \in Nat /\ Termination \in BOOLEAN
  /\ keepAlive \in [Readers -> [step : {"none", "store", "is33", "is83", "times", "scaled",
                                        "load", "add"},
                                bytes : Byte \X Byte, lost : Byte \X Byte, rate : Nat,
                                short : BOOLEAN, sum : Nat, met : BOOLEAN]]
  /\ reported \in Byte \X Byte /\ rateRaced \in BOOLEAN
  /\ certain \in Nat /\ losses \in Nat

\* The rate that BITRATE_GET and STATUS_GET return is the one that was set, for
\* each MCBA_BITRATE, as soon as the device has reported it and between keep-alive
\* messages, unless two readers have met on it since: then it may be scaled twice.
BitrateComesBack ==
  ~rateRaced /\ reported = setting /\ (\A r \in Readers : ~Rating(r)) => Bitrate = asked

\* However readers and clears meet on the statistics, the reports of readers that
\* met nobody are in the sum, and there is never more in it than was reported.
\* What those that do meet report may be missing, and a clear that finds a reader
\* between load and store may be undone: the cleared sum then comes back.
StatsBounded == certain <= RxLost /\ RxLost <= losses
=============================================================================
