------------------------------ MODULE Sx1276 ------------------------------
(***************************************************************************)
(* The radio driver radio/sx1276/sx1276.c with its LoRa modem.              *)
(*                                                                          *)
(* The main loop calls the driver; a call is a sequence of steps, each up    *)
(* to its next write to the chip or to Settings.State.  Between two steps    *)
(* the chip may finish what it does and raise its line DIO0, and the handler *)
(* SX1276OnDio0Irq then runs before the call goes on.                        *)
(*                                                                          *)
(* The chip is external: it leaves TX and CAD for standby when it is done,   *)
(* stays in RX after a frame, loses its settings in a reset, and takes a     *)
(* change of the LongRangeMode bit only while it sleeps.  Its interrupt      *)
(* flags stay set until they are written, and the line rises when the flag   *)
(* it is mapped to does.  The callbacks of the application do not call the    *)
(* driver (LoRa_init passes none).                                           *)
(***************************************************************************)
EXTENDS Naturals

CONSTANTS
  Garbage,       \* what a FIFO holds when it is not what the caller gave
  MaxCalls       \* bound: calls of the driver

ASSUME Sx1276Assumption ==
  /\ Garbage \notin Nat
  /\ MaxCalls \in Nat

VARIABLES
  state,      \* SX1276.Settings.State
  modem,      \* SX1276.Settings.Modem
  continuous, \* SX1276.Settings.LoRa.RxContinuous
  cached,     \* opModePrev, the mode SX1276SetOpMode wrote last
  chip,       \* the mode of the chip
  long_range, \* its LongRangeMode bit: whether it uses the LoRa modem
  dio0,       \* the flag the line DIO0 is mapped to, the only one not masked
  flags,      \* interrupt flags that are set in the chip
  irq,        \* whether DIO0 has risen and the handler has not run yet
  at_base,    \* whether the FIFO pointer is at the base address
  fifo,       \* what a transmission would send: a payload, by its number
  pc,         \* where the main loop is in its call of the driver
  payload,    \* number of the last payload handed to SX1276Send
  calls,      \* calls made
  skipped,    \* ghost: the last SetOpMode found the mode cached, the chip in another
  on_air,     \* ghost: the last Send began while the chip was receiving or transmitting
  slept       \* ghost: the last reset found the mode sleep cached

chipvars == <<chip, long_range, dio0, flags, irq>>
mode == <<cached, chip, skipped>>
kept == <<continuous, on_air, slept>>
vars == <<state, modem, cached, chipvars, at_base, fifo, pc, payload, calls, skipped, kept>>

State == {"RF_IDLE", "RF_RX_RUNNING", "RF_TX_RUNNING", "RF_CAD"}
OpMode == {"SLEEP", "STANDBY", "TRANSMITTER", "RECEIVER", "CAD"}
Flag == {"TxDone", "RxDone", "CadDone"}
Step == {"idle", "send_fill", "send_map", "send_state", "send_mode", "rx_state", "rx_mode",
         "cad_state", "cad_mode", "stop_state", "sense"}

TypeOK ==
  /\ state \in State
  /\ modem \in {"FSK", "LORA"} /\ continuous \in BOOLEAN
  /\ cached \in OpMode /\ chip \in OpMode
  /\ long_range \in BOOLEAN
  /\ dio0 \in Flag \cup {"none"}
  /\ flags \subseteq Flag
  /\ irq \in BOOLEAN
  /\ at_base \in BOOLEAN
  /\ fifo \in 0 .. payload \cup {Garbage}
  /\ pc \in Step
  /\ payload \in Nat /\ calls \in 0 .. MaxCalls
  /\ skipped \in BOOLEAN /\ on_air \in BOOLEAN /\ slept \in BOOLEAN

\* Power on; the first call is SX1276Init.  RxContinuous is what the application
\* gives to SX1276SetRxConfig: TRUE in LoRa_init.
Init ==
  /\ state = "RF_IDLE" /\ modem = "FSK" /\ continuous \in BOOLEAN
  /\ cached = "STANDBY" /\ chip = "STANDBY" /\ long_range = FALSE
  /\ dio0 = "RxDone" /\ flags = {} /\ irq = FALSE
  /\ at_base = TRUE /\ fifo = Garbage
  /\ pc = "idle" /\ payload = 0 /\ calls = 0
  /\ skipped = FALSE /\ on_air = FALSE /\ slept = FALSE

-----------------------------------------------------------------------------
(* The main loop                                                            *)

\* A call begins, or goes on.  The handler has run if the line has risen.
Call == pc = "idle" /\ ~irq /\ calls < MaxCalls /\ calls' = calls + 1
At(p) == pc = p /\ ~irq /\ UNCHANGED calls
Goto(p) == pc' = p

\* SX1276SetOpMode: the register is written only if the mode is not the cached one.
SX1276SetOpMode(m) ==
  /\ cached' = m
  /\ chip' = IF m # cached THEN m ELSE chip
  /\ skipped' = (m = cached /\ m # chip)

\* SX1276Init and SX1276ResetInit.  SX1276Reset puts the chip in standby; the
\* registers are written, last of all those of the FSK modem, in sleep mode,
\* unless that is the mode cached.
SX1276Init ==
  /\ Call
  /\ modem' = "FSK"
  /\ cached' = "SLEEP"
  /\ chip' = IF cached # "SLEEP" THEN "SLEEP" ELSE "STANDBY"
  /\ slept' = (cached = "SLEEP")
  /\ skipped' = (cached = "SLEEP")
  /\ long_range' = FALSE
  /\ dio0' = "RxDone"
  /\ flags' = {}
  /\ fifo' = Garbage
  /\ at_base' = TRUE
  /\ state' = "RF_IDLE"
  /\ UNCHANGED <<irq, pc, payload, continuous, on_air>>

\* SX1276SetModem(MODEM_LORA), the first statement of SX1276SetRxConfig,
\* SX1276SetTxConfig, SX1276IsChannelFree and SX1276Random.
NoSleepForModem == UNCHANGED mode         \* fault: the modem is changed in any mode
SleepForModem == SX1276SetOpMode("SLEEP")

SX1276SetModem ==
  /\ modem' = "LORA"
  /\ IF modem = "LORA" THEN UNCHANGED <<mode, long_range, dio0>>
     ELSE /\ SleepForModem
          /\ long_range' = (long_range \/ chip' = "SLEEP")
          /\ dio0' = "RxDone"

Configure ==
  /\ Call
  /\ SX1276SetModem
  /\ UNCHANGED <<state, flags, irq, at_base, fifo, pc, payload, kept>>

\* SX1276Send: the pointer is set and the chip is woken up, which it tells itself ...
PointerLeft == UNCHANGED at_base         \* fault: FIFOADDRPTR is not written
PointerToBase == at_base' = TRUE

SX1276Send ==
  /\ Call
  /\ modem = "LORA"
  /\ payload' = payload + 1
  /\ PointerToBase
  /\ IF chip = "SLEEP" THEN SX1276SetOpMode("STANDBY") /\ state' = "RF_IDLE"
     ELSE UNCHANGED <<mode, state>>
  /\ on_air' = (chip \in {"RECEIVER", "TRANSMITTER"})
  /\ Goto("send_fill")
  /\ UNCHANGED <<modem, continuous, long_range, dio0, flags, irq, fifo, slept>>

\* ... the payload is written, from where the pointer is ...
SX1276WriteFifo ==
  /\ At("send_fill")
  /\ fifo' = IF at_base THEN payload ELSE Garbage
  /\ at_base' = FALSE
  /\ Goto("send_map")
  /\ UNCHANGED <<state, modem, mode, long_range, dio0, flags, irq, payload, kept>>

\* ... and SX1276SetTx maps DIO0 to TxDone, masks the other flags,
LineForRx == "RxDone"                    \* fault: DIO0 stays mapped to RxDone
LineForTx == "TxDone"

\* A line mapped to a flag that is set rises.
Map(f) == dio0' = f /\ irq' = (f # dio0 /\ f \in flags)

SX1276SetTx ==
  /\ At("send_map")
  /\ Map(LineForTx)
  /\ Goto("send_state")
  /\ UNCHANGED <<state, modem, mode, long_range, flags, at_base, fifo, payload, kept>>

\* sets the state
SetTxState ==
  /\ At("send_state")
  /\ state' = "RF_TX_RUNNING"
  /\ Goto("send_mode")
  /\ UNCHANGED <<modem, mode, long_range, dio0, flags, irq, at_base, fifo, payload, kept>>

\* and starts the transmission; its time-out timer is commented out.
SetTxMode ==
  /\ At("send_mode")
  /\ SX1276SetOpMode("TRANSMITTER")
  /\ Goto("idle")
  /\ UNCHANGED <<state, modem, long_range, dio0, flags, irq, at_base, fifo, payload, kept>>

\* SX1276SetRx: the line and the pointer, the state, the mode.
SX1276SetRx ==
  /\ Call
  /\ modem = "LORA"
  /\ Map("RxDone")
  /\ at_base' = TRUE
  /\ Goto("rx_state")
  /\ UNCHANGED <<state, modem, mode, long_range, flags, fifo, payload, kept>>

SetRxState ==
  /\ At("rx_state")
  /\ state' = "RF_RX_RUNNING"
  /\ Goto("rx_mode")
  /\ UNCHANGED <<modem, mode, long_range, dio0, flags, irq, at_base, fifo, payload, kept>>

SetRxMode ==
  /\ At("rx_mode")
  /\ SX1276SetOpMode("RECEIVER")
  /\ Goto("idle")
  /\ UNCHANGED <<state, modem, long_range, dio0, flags, irq, at_base, fifo, payload, kept>>

\* SX1276StartCad: the line, the state, the mode.
SX1276StartCad ==
  /\ Call
  /\ modem = "LORA"
  /\ Map("CadDone")
  /\ Goto("cad_state")
  /\ UNCHANGED <<state, modem, mode, long_range, flags, at_base, fifo, payload, kept>>

SetCadState ==
  /\ At("cad_state")
  /\ state' = "RF_CAD"
  /\ Goto("cad_mode")
  /\ UNCHANGED <<modem, mode, long_range, dio0, flags, irq, at_base, fifo, payload, kept>>

SetCadMode ==
  /\ At("cad_mode")
  /\ SX1276SetOpMode("CAD")
  /\ Goto("idle")
  /\ UNCHANGED <<state, modem, long_range, dio0, flags, irq, at_base, fifo, payload, kept>>

\* SX1276SetSleep and SX1276SetStby: the mode, then the state.
Stop(m) ==
  /\ Call
  /\ SX1276SetOpMode(m)
  /\ Goto("stop_state")
  /\ UNCHANGED <<state, modem, long_range, dio0, flags, irq, at_base, fifo, payload, kept>>

StandbyState == "STANDBY"                \* fault: a mode is stored as the state
StoppedState == "RF_IDLE"

StopState ==
  /\ At("stop_state")
  /\ state' = StoppedState
  /\ Goto("idle")
  /\ UNCHANGED <<modem, mode, long_range, dio0, flags, irq, at_base, fifo, payload, kept>>

\* SX1276IsChannelFree receives for a millisecond, SX1276Random, with all
\* interrupts masked, for 32; then SX1276SetSleep.  The modem is set already.
SX1276IsChannelFree ==
  /\ Call
  /\ modem = "LORA"
  /\ SX1276SetOpMode("RECEIVER")
  /\ Goto("sense")
  /\ UNCHANGED <<state, modem, long_range, dio0, flags, irq, at_base, fifo, payload, kept>>

SX1276Random ==
  /\ Call
  /\ modem = "LORA"
  /\ dio0' = "none"
  /\ SX1276SetOpMode("RECEIVER")
  /\ Goto("sense")
  /\ UNCHANGED <<state, modem, long_range, flags, irq, at_base, fifo, payload, kept>>

SenseEnds ==
  /\ At("sense")
  /\ SX1276SetOpMode("SLEEP")
  /\ Goto("stop_state")
  /\ UNCHANGED <<state, modem, long_range, dio0, flags, irq, at_base, fifo, payload, kept>>

Continue ==
  \/ SX1276WriteFifo \/ SX1276SetTx \/ SetTxState \/ SetTxMode
  \/ SetRxState \/ SetRxMode
  \/ SetCadState \/ SetCadMode
  \/ StopState \/ SenseEnds

-----------------------------------------------------------------------------
(* The chip                                                                 *)

Raise(f) ==
  /\ flags' = IF dio0 = f THEN flags \cup {f} ELSE flags
  /\ irq' = (dio0 = f /\ f \notin flags)

Finish(m, f) ==
  /\ chip = m /\ long_range /\ ~irq
  /\ chip' = "STANDBY"
  /\ Raise(f)
  /\ UNCHANGED <<state, modem, cached, long_range, dio0, at_base, fifo, pc, payload, calls,
                 skipped, kept>>

TxFinishes == Finish("TRANSMITTER", "TxDone")
CadFinishes == Finish("CAD", "CadDone")

\* A frame has been received, into a part of the FIFO that may be the one a
\* payload has just been written to.  A reception that begins when the channel
\* is sensed is not over within the millisecond.
FrameReceived ==
  /\ chip = "RECEIVER" /\ long_range /\ ~irq
  /\ pc = "sense" => state = "RF_RX_RUNNING"
  /\ Raise("RxDone")
  /\ fifo' \in {fifo, Garbage}
  /\ UNCHANGED <<state, modem, mode, long_range, dio0, at_base, pc, payload, calls, kept>>

-----------------------------------------------------------------------------
(* SX1276OnDio0Irq, by state                                                *)

Handle == irq /\ irq' = FALSE

NotCleared(f) == UNCHANGED flags         \* fault: the flag is not written
Clear(f) == flags' = flags \ {f}

OnRxDone ==
  /\ Handle
  /\ state = "RF_RX_RUNNING"
  /\ Clear("RxDone")
  /\ \E crc_ok \in BOOLEAN : at_base' = (at_base /\ ~crc_ok)
  /\ state' = IF continuous THEN state ELSE "RF_IDLE"
  /\ UNCHANGED <<modem, mode, long_range, dio0, fifo, pc, payload, calls, kept>>

StillRunning == state                    \* fault: the state is not reset
AfterTxDone == "RF_IDLE"

OnTxDone ==
  /\ Handle
  /\ state = "RF_TX_RUNNING"
  /\ Clear("TxDone")
  /\ state' = AfterTxDone
  /\ UNCHANGED <<modem, mode, long_range, dio0, at_base, fifo, pc, payload, calls, kept>>

OnCadDone ==
  /\ Handle
  /\ state = "RF_CAD"
  /\ Clear("CadDone")
  /\ UNCHANGED <<state, modem, mode, long_range, dio0, at_base, fifo, pc, payload, calls, kept>>

\* No case of the switch, after a reception that was to be single: nothing is
\* cleared.
OnNothing ==
  /\ Handle
  /\ state = "RF_IDLE"
  /\ UNCHANGED <<state, modem, mode, long_range, dio0, flags, at_base, fifo, pc, payload, calls,
                 kept>>

SX1276OnDio0Irq == OnRxDone \/ OnTxDone \/ OnCadDone \/ OnNothing

Next ==
  \/ SX1276Init \/ Configure \/ SX1276Send \/ SX1276SetRx \/ SX1276StartCad
  \/ Stop("SLEEP") \/ Stop("STANDBY") \/ SX1276IsChannelFree \/ SX1276Random
  \/ Continue
  \/ TxFinishes \/ CadFinishes \/ FrameReceived
  \/ SX1276OnDio0Irq

\* A call that has begun goes on, the chip ends a transmission, and a line that
\* has risen interrupts.
Fairness ==
  /\ WF_vars(Continue)
  /\ WF_vars(TxFinishes)
  /\ WF_vars(SX1276OnDio0Irq)

Spec == Init /\ [][Next]_vars /\ Fairness

-----------------------------------------------------------------------------
(* Properties                                                               *)

\* Between calls, Settings.State tells what the chip does, wherever the handler
\* ran during the calls before.  There are two exceptions: a second SX1276Send
\* whose mode is still cached (skipped), see SendTransmits; and a reception that
\* was to be single, which the chip continues when the handler has stored RF_IDLE.
Settled == pc = "idle" /\ ~irq
StateIsTrue ==
  Settled =>
    CASE state = "RF_IDLE" -> chip \in {"SLEEP", "STANDBY"} \/ (~continuous /\ chip = "RECEIVER")
      [] state = "RF_RX_RUNNING" -> chip = "RECEIVER"
      [] state = "RF_TX_RUNNING" -> chip = "TRANSMITTER" \/ skipped
      [] state = "RF_CAD" -> chip \in {"CAD", "STANDBY"}

\* Once SX1276Send has returned the radio is in transmission until TxDone is
\* handled, as radio.h says; at least if nothing was on the air when it was called.
SendTransmits == Settled /\ state = "RF_TX_RUNNING" /\ ~on_air => chip = "TRANSMITTER"

\* When the driver takes the modem for LoRa, the chip has the LongRangeMode bit
\* set: SX1276SetModem changes it in sleep mode only.  Not so after a reset that
\* found sleep cached: the chip is in standby then, and the bit is not taken.
ModemIsTrue == modem = "LORA" /\ ~slept => long_range

\* The flag that DIO0 shows is never left set by a handler that ignores it:
\* the line could not rise again and the driver would wait for ever.  The order
\* of the writes to the line, the state and the mode sees to that.  Not so when
\* a second frame follows a reception that was to be single: OnNothing.
LineIsFree == dio0 \in flags => irq \/ (~continuous /\ dio0 = "RxDone")

\* The chip transmits what the caller gave to SX1276Send, though frames come
\* in before it is called and move the pointer into the FIFO.  Not so if Send is
\* called during a reception or a transmission, which Send does not stop.
AirIsPayload == chip = "TRANSMITTER" /\ ~on_air => fifo = payload

\* A transmission ends in TxDone, without the time-out timer; a call of
\* SX1276Send that the chip does not follow is the exception, as above.
TransmissionEnds == state = "RF_TX_RUNNING" ~> state # "RF_TX_RUNNING" \/ skipped \/ slept
=============================================================================
