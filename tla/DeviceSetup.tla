---------------------------- MODULE DeviceSetup -----------------------------
(***************************************************************************)
(* How the driver comes to have a device: DriverEntry, McbaCreateDevice,   *)
(* McbaEvtDevicePrepareHardware.  The last is called at every start; the   *)
(* USB stack may have reconfigured the device since the one before, so the *)
(* pipes of each configuration are told apart by the number of the start.  *)
(***************************************************************************)
EXTENDS Integers

CONSTANT MaxStarts  \* Bound: how often the device is started.

ASSUME SetupAssumption == MaxStarts \in Nat

VARIABLES
  setup,         \* How far it has come: "unloaded", "loaded", with "buffers", device
                 \* "created", "starting", "configured", "prepared"; or "freeing" the
                 \* buffers, or "failed" for good.
  endpoints,     \* The device's bulk endpoints: "in", "out".
  starts,        \* How often it has been started.
  UsbDevice,     \* Is there a handle to the USB device?
  BulkReadPipe,  \* The start whose configuration the pipe belongs to, or 0 ...
  BulkWritePipe, \* ... if it is NULL.
  reader         \* The start whose BulkReadPipe has the continuous reader.

pipeVars == <<BulkReadPipe, BulkWritePipe, reader>>
setupVars == <<setup, endpoints, starts, UsbDevice, pipeVars>>

SetupInit ==
  /\ setup = "unloaded"
  /\ endpoints \in SUBSET {"in", "out"}
  /\ starts = 0 /\ UsbDevice = FALSE
  /\ BulkReadPipe = 0 /\ BulkWritePipe = 0 /\ reader = 0

\* The next step of the set-up succeeds, or ends it with another one.
Advance(from, success, to, else) ==
  /\ setup = from
  /\ setup' = IF success THEN to ELSE else

-----------------------------------------------------------------------------
(* DriverEntry, and McbaEvtDeviceAdd with McbaCreateDevice. *)

DriverEntry(success) ==
  /\ Advance("unloaded", success, "loaded", "failed")
  /\ UNCHANGED <<endpoints, starts, UsbDevice, pipeVars>>

\* WdfDeviceCreate and McbaMessageBuffersAdd ...
AddBuffers(success) ==
  /\ Advance("loaded", success, "buffers", "failed")
  /\ UNCHANGED <<endpoints, starts, UsbDevice, pipeVars>>

\* ... and the device interface and the two queues (McbaQueueInitialize).
CreateQueues(success) ==
  /\ Advance("buffers", success, "created", "freeing")
  /\ UNCHANGED <<endpoints, starts, UsbDevice, pipeVars>>

\* McbaMessageBuffersFree pops an item, and looks at it for ever: nothing in its
\* loop pops the next.
MessageBuffersFree ==
  /\ setup = "freeing"
  /\ UNCHANGED setupVars

-----------------------------------------------------------------------------
(* McbaEvtDevicePrepareHardware. *)

\* The device is started, or started again.
Start ==
  /\ setup \in {"created", "prepared"} /\ starts < MaxStarts
  /\ setup' = "starting"
  /\ starts' = starts + 1
  /\ UNCHANGED <<endpoints, UsbDevice, pipeVars>>

\* Fault: the configuration is selected only when the USB device is created.
FoundOnce(pipe, e) == IF e \in endpoints /\ ~UsbDevice THEN starts ELSE pipe

\* The pipe found at an endpoint.  If there is none, that of the last start stays.
Found(pipe, e) == IF e \in endpoints THEN starts ELSE pipe

\* The USB device is created (and its port reset) once; the configuration is
\* selected, and its pipes found, at every start.
FindPipes(success) ==
  /\ Advance("starting", success, "configured", "failed")
  /\ UsbDevice' \in {UsbDevice, TRUE} /\ (success => UsbDevice')
  /\ IF success
     THEN /\ BulkReadPipe' = Found(BulkReadPipe, "in")
          /\ BulkWritePipe' = Found(BulkWritePipe, "out")
     ELSE UNCHANGED <<BulkReadPipe, BulkWritePipe>>
  /\ UNCHANGED <<endpoints, starts, reader>>

\* Both pipes must be there, and the read pipe gets its continuous reader.
ConfigureReader(success) ==
  /\ Advance("configured", success /\ BulkReadPipe # 0 /\ BulkWritePipe # 0, "prepared", "failed")
  /\ reader' = IF setup' = "prepared" THEN BulkReadPipe ELSE reader
  /\ UNCHANGED <<endpoints, starts, UsbDevice, BulkReadPipe, BulkWritePipe>>

SetupStep ==
  \/ \E success \in BOOLEAN :
       \/ DriverEntry(success) \/ AddBuffers(success) \/ CreateQueues(success)
       \/ FindPipes(success) \/ ConfigureReader(success)
  \/ Start
  \/ MessageBuffersFree
=============================================================================
