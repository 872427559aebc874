---------------------------- MODULE Sx1276Proofs ----------------------------
(***************************************************************************)
(* Safety of the radio driver for any number of calls.  The inductive        *)
(* invariant says, for each place in a call, which of the chip's mode, its    *)
(* line and Settings.State already agree: the driver writes the line first,   *)
(* the state next and the mode last, and an interrupt in between must find    *)
(* the state that goes with the line.                                        *)
(***************************************************************************)
EXTENDS Sx1276, TLAPS

\* The chip leaves the mode that SX1276SetOpMode wrote last for standby only.
CacheInv ==
  /\ chip # cached => /\ chip = "STANDBY"
                      /\ \/ cached \in {"TRANSMITTER", "CAD"}
                         \/ cached = "SLEEP" /\ slept
  /\ skipped => chip # cached

\* Before the driver has the LoRa modem it only sleeps or stands by.
ModemInv ==
  /\ modem = "LORA" /\ ~slept => long_range
  /\ modem = "FSK" => /\ chip \in {"SLEEP", "STANDBY"}
                      /\ pc \in {"idle", "stop_state"}
                      /\ state = "RF_IDLE"

\* A flag that is set has raised the line and waits for its handler; only RxDone
\* may be left behind, by a reception that was to be single.
FlagInv ==
  /\ irq => dio0 \in flags
  /\ \A f \in flags : f # "RxDone" => irq /\ dio0 = f
  /\ "RxDone" \in flags /\ continuous => irq /\ dio0 = "RxDone"

\* The handler finds the state that belongs to the flag.
HandlerInv ==
  irq =>
    /\ dio0 = "TxDone" => state = "RF_TX_RUNNING" /\ chip = "STANDBY" /\ cached = "TRANSMITTER"
    /\ dio0 = "CadDone" => state = "RF_CAD" /\ chip = "STANDBY"
    /\ dio0 = "RxDone" /\ continuous => state = "RF_RX_RUNNING"

\* Between calls, and in SX1276Send up to its write to the line, mode, line and
\* state agree.
Agree ==
  /\ chip = "TRANSMITTER" => state = "RF_TX_RUNNING" /\ dio0 = "TxDone"
  /\ chip = "CAD" => state = "RF_CAD" /\ dio0 = "CadDone"
  /\ chip = "RECEIVER" => /\ dio0 = "RxDone"
                          /\ state = "RF_RX_RUNNING" \/ (~continuous /\ state = "RF_IDLE")
  /\ state = "RF_RX_RUNNING" => chip = "RECEIVER"
  /\ state = "RF_CAD" => chip \in {"CAD", "STANDBY"}
  /\ state = "RF_TX_RUNNING" => chip = "TRANSMITTER" \/ skipped \/ irq
  /\ irq => dio0 # "RxDone" \/ chip = "RECEIVER"

\* What holds at each place in a call.
PlaceInv ==
  /\ pc \in {"idle", "send_fill", "send_map"} => Agree
  /\ pc = "send_state" => dio0 = "TxDone" /\ (chip = "TRANSMITTER" => state = "RF_TX_RUNNING")
  /\ pc = "send_mode" =>
       /\ dio0 = "TxDone"
       /\ \/ state = "RF_TX_RUNNING"
          \/ state = "RF_IDLE" /\ chip = "STANDBY" /\ cached = "TRANSMITTER"
  /\ pc = "rx_state" =>
       dio0 = "RxDone" /\ (chip = "RECEIVER" /\ continuous => state = "RF_RX_RUNNING")
  /\ pc = "rx_mode" =>
       dio0 = "RxDone" /\ (state = "RF_RX_RUNNING" \/ (~continuous /\ state = "RF_IDLE"))
  /\ pc = "cad_state" => dio0 = "CadDone" /\ (chip = "CAD" => state = "RF_CAD")
  /\ pc = "cad_mode" => dio0 = "CadDone" /\ state = "RF_CAD"
  /\ pc = "stop_state" => chip \in {"SLEEP", "STANDBY"} /\ ~irq
  /\ pc = "sense" => chip = "RECEIVER" /\ (irq => dio0 = "RxDone" /\ state = "RF_RX_RUNNING")

\* From SX1276Send to the start of the transmission nothing touches the payload,
\* if nothing was on the air.
Sending == pc \in {"send_fill", "send_map", "send_state", "send_mode"}
PayloadInv ==
  /\ AirIsPayload
  /\ Sending /\ ~on_air => chip \in {"STANDBY", "CAD"}
  /\ pc = "send_fill" /\ ~on_air => at_base
  /\ Sending /\ pc # "send_fill" /\ ~on_air => fifo = payload

IInv ==
  TypeOK /\ CacheInv /\ ModemInv /\ FlagInv /\ HandlerInv /\ PlaceInv /\ PayloadInv

-----------------------------------------------------------------------------
\* Every variable keeps its range.
LEMMA TypeStep ==
  ASSUME TypeOK, [Next]_vars
  PROVE  TypeOK'
<1>. USE Sx1276Assumption DEF TypeOK, State, OpMode, Flag, Step
<1>1. CASE SX1276Init
  <2>1. continuous' \in BOOLEAN /\ long_range' \in BOOLEAN /\ irq' \in BOOLEAN /\ at_base' \in BOOLEAN
    BY <1>1, Zenon DEF SX1276Init, Call, kept
  <2>2. skipped' \in BOOLEAN /\ on_air' \in BOOLEAN /\ slept' \in BOOLEAN
    BY <1>1, Zenon DEF SX1276Init, Call, kept
  <2>3. flags' \subseteq Flag
    BY <1>1 DEF SX1276Init, Call, kept
  <2>4. fifo' \in 0 .. payload' \cup {Garbage} /\ payload' \in Nat /\ calls' \in 0 .. MaxCalls
    BY <1>1 DEF SX1276Init, Call, kept
  <2>. QED
    BY <1>1, <2>1, <2>2, <2>3, <2>4 DEF SX1276Init, Call, kept
<1>2. CASE Configure
  <2>1. continuous' \in BOOLEAN /\ long_range' \in BOOLEAN /\ irq' \in BOOLEAN /\ at_base' \in BOOLEAN
    BY <1>2, Zenon DEF Configure, Call, SX1276SetModem, SleepForModem, SX1276SetOpMode, mode, kept
  <2>2. skipped' \in BOOLEAN /\ on_air' \in BOOLEAN /\ slept' \in BOOLEAN
    BY <1>2, Zenon DEF Configure, Call, SX1276SetModem, SleepForModem, SX1276SetOpMode, mode, kept
  <2>3. flags' \subseteq Flag
    BY <1>2 DEF Configure, Call, SX1276SetModem, SleepForModem, SX1276SetOpMode, mode, kept
  <2>4. fifo' \in 0 .. payload' \cup {Garbage} /\ payload' \in Nat /\ calls' \in 0 .. MaxCalls
    BY <1>2 DEF Configure, Call, SX1276SetModem, SleepForModem, SX1276SetOpMode, mode, kept
  <2>. QED
    BY <1>2, <2>1, <2>2, <2>3, <2>4 DEF Configure, Call, SX1276SetModem, SleepForModem, SX1276SetOpMode, mode, kept
<1>3. CASE SX1276Send
  <2>1. continuous' \in BOOLEAN /\ long_range' \in BOOLEAN /\ irq' \in BOOLEAN /\ at_base' \in BOOLEAN
    BY <1>3, Zenon DEF SX1276Send, Call, PointerToBase, SX1276SetOpMode, Goto, mode, kept
  <2>2. skipped' \in BOOLEAN /\ on_air' \in BOOLEAN /\ slept' \in BOOLEAN
    <3>1. on_air' \in BOOLEAN /\ slept' \in BOOLEAN
      <4>1. on_air' = (chip \in {"RECEIVER", "TRANSMITTER"}) /\ slept' = slept
        BY <1>3 DEF SX1276Send
      <4>2. slept' \in BOOLEAN
        BY <4>1
      <4>3. CASE chip \in {"RECEIVER", "TRANSMITTER"}
        BY <4>1, <4>2, <4>3
      <4>4. CASE chip \notin {"RECEIVER", "TRANSMITTER"}
        BY <4>1, <4>2, <4>4
      <4>. QED
        BY <4>3, <4>4
    <3>2. CASE chip = "SLEEP"
      <4>1. SX1276SetOpMode("STANDBY")
        BY <1>3, <3>2 DEF SX1276Send
      <4>2. skipped' \in BOOLEAN
        BY <4>1, Zenon DEF SX1276SetOpMode
      <4>. QED
        BY <3>1, <4>2
    <3>3. CASE chip # "SLEEP"
      <4>1. UNCHANGED mode
        BY <1>3, <3>3 DEF SX1276Send
      <4>. QED
        BY <3>1, <4>1 DEF mode
    <3>. QED
      BY <3>2, <3>3
  <2>3. flags' \subseteq Flag
    BY <1>3 DEF SX1276Send, Call, PointerToBase, SX1276SetOpMode, Goto, mode, kept
  <2>4. fifo' \in 0 .. payload' \cup {Garbage} /\ payload' \in Nat /\ calls' \in 0 .. MaxCalls
    BY <1>3 DEF SX1276Send, Call, PointerToBase, SX1276SetOpMode, Goto, mode, kept
  <2>. QED
    BY <1>3, <2>1, <2>2, <2>3, <2>4 DEF SX1276Send, Call, PointerToBase, SX1276SetOpMode, Goto, mode, kept
<1>4. CASE SX1276SetRx
  BY <1>4 DEF TypeOK, SX1276SetRx, Call, Map, Goto, mode, kept
<1>5. CASE SX1276StartCad
  BY <1>5 DEF TypeOK, SX1276StartCad, Call, Map, Goto, mode, kept
<1>6. CASE Stop("SLEEP")
  BY <1>6 DEF TypeOK, Stop, Call, SX1276SetOpMode, Goto, kept
<1>7. CASE Stop("STANDBY")
  BY <1>7 DEF TypeOK, Stop, Call, SX1276SetOpMode, Goto, kept
<1>8. CASE SX1276IsChannelFree
  BY <1>8 DEF TypeOK, SX1276IsChannelFree, Call, SX1276SetOpMode, Goto, kept
<1>9. CASE SX1276Random
  BY <1>9 DEF TypeOK, SX1276Random, Call, SX1276SetOpMode, Goto, kept
<1>10. CASE SX1276WriteFifo
  <2>1. continuous' \in BOOLEAN /\ long_range' \in BOOLEAN /\ irq' \in BOOLEAN /\ at_base' \in BOOLEAN
    BY <1>10, Zenon DEF SX1276WriteFifo, At, Goto, mode, kept
  <2>2. skipped' \in BOOLEAN /\ on_air' \in BOOLEAN /\ slept' \in BOOLEAN
    BY <1>10, Zenon DEF SX1276WriteFifo, At, Goto, mode, kept
  <2>3. flags' \subseteq Flag
    BY <1>10 DEF SX1276WriteFifo, At, Goto, mode, kept
  <2>4. fifo' \in 0 .. payload' \cup {Garbage} /\ payload' \in Nat /\ calls' \in 0 .. MaxCalls
    BY <1>10 DEF SX1276WriteFifo, At, Goto, mode, kept
  <2>. QED
    BY <1>10, <2>1, <2>2, <2>3, <2>4 DEF SX1276WriteFifo, At, Goto, mode, kept
<1>11. CASE SX1276SetTx
  BY <1>11 DEF TypeOK, SX1276SetTx, At, Map, LineForTx, Goto, mode, kept
<1>12. CASE SetTxState
  BY <1>12 DEF TypeOK, SetTxState, At, Goto, mode, kept
<1>13. CASE SetTxMode
  BY <1>13 DEF TypeOK, SetTxMode, At, SX1276SetOpMode, Goto, kept
<1>14. CASE SetRxState
  BY <1>14 DEF TypeOK, SetRxState, At, Goto, mode, kept
<1>15. CASE SetRxMode
  BY <1>15 DEF TypeOK, SetRxMode, At, SX1276SetOpMode, Goto, kept
<1>16. CASE SetCadState
  BY <1>16 DEF TypeOK, SetCadState, At, Goto, mode, kept
<1>17. CASE SetCadMode
  BY <1>17 DEF TypeOK, SetCadMode, At, SX1276SetOpMode, Goto, kept
<1>18. CASE StopState
  BY <1>18 DEF TypeOK, StopState, At, StoppedState, Goto, mode, kept
<1>19. CASE SenseEnds
  BY <1>19 DEF TypeOK, SenseEnds, At, SX1276SetOpMode, Goto, kept
<1>20. CASE TxFinishes
  BY <1>20 DEF TypeOK, TxFinishes, Finish, Raise, kept
<1>21. CASE CadFinishes
  BY <1>21 DEF TypeOK, CadFinishes, Finish, Raise, kept
<1>22. CASE FrameReceived
  BY <1>22 DEF TypeOK, FrameReceived, Raise, mode, kept
<1>23. CASE OnRxDone
  <2>1. continuous' \in BOOLEAN /\ long_range' \in BOOLEAN /\ irq' \in BOOLEAN /\ at_base' \in BOOLEAN
    BY <1>23, Zenon DEF OnRxDone, Handle, Clear, mode, kept
  <2>2. skipped' \in BOOLEAN /\ on_air' \in BOOLEAN /\ slept' \in BOOLEAN
    BY <1>23, Zenon DEF OnRxDone, Handle, Clear, mode, kept
  <2>3. flags' \subseteq Flag
    BY <1>23 DEF OnRxDone, Handle, Clear, mode, kept
  <2>4. fifo' \in 0 .. payload' \cup {Garbage} /\ payload' \in Nat /\ calls' \in 0 .. MaxCalls
    BY <1>23 DEF OnRxDone, Handle, Clear, mode, kept
  <2>. QED
    BY <1>23, <2>1, <2>2, <2>3, <2>4 DEF OnRxDone, Handle, Clear, mode, kept
<1>24. CASE OnTxDone
  <2>1. continuous' \in BOOLEAN /\ long_range' \in BOOLEAN /\ irq' \in BOOLEAN /\ at_base' \in BOOLEAN
    BY <1>24, Zenon DEF OnTxDone, Handle, Clear, AfterTxDone, mode, kept
  <2>2. skipped' \in BOOLEAN /\ on_air' \in BOOLEAN /\ slept' \in BOOLEAN
    BY <1>24, Zenon DEF OnTxDone, Handle, Clear, AfterTxDone, mode, kept
  <2>3. flags' \subseteq Flag
    BY <1>24 DEF OnTxDone, Handle, Clear, AfterTxDone, mode, kept
  <2>4. fifo' \in 0 .. payload' \cup {Garbage} /\ payload' \in Nat /\ calls' \in 0 .. MaxCalls
    BY <1>24 DEF OnTxDone, Handle, Clear, AfterTxDone, mode, kept
  <2>. QED
    BY <1>24, <2>1, <2>2, <2>3, <2>4 DEF OnTxDone, Handle, Clear, AfterTxDone, mode, kept
<1>25. CASE OnCadDone
  <2>1. continuous' \in BOOLEAN /\ long_range' \in BOOLEAN /\ irq' \in BOOLEAN /\ at_base' \in BOOLEAN
    BY <1>25, Zenon DEF OnCadDone, Handle, Clear, mode, kept
  <2>2. skipped' \in BOOLEAN /\ on_air' \in BOOLEAN /\ slept' \in BOOLEAN
    BY <1>25, Zenon DEF OnCadDone, Handle, Clear, mode, kept
  <2>3. flags' \subseteq Flag
    BY <1>25 DEF OnCadDone, Handle, Clear, mode, kept
  <2>4. fifo' \in 0 .. payload' \cup {Garbage} /\ payload' \in Nat /\ calls' \in 0 .. MaxCalls
    BY <1>25 DEF OnCadDone, Handle, Clear, mode, kept
  <2>. QED
    BY <1>25, <2>1, <2>2, <2>3, <2>4 DEF OnCadDone, Handle, Clear, mode, kept
<1>26. CASE OnNothing
  <2>1. continuous' \in BOOLEAN /\ long_range' \in BOOLEAN /\ irq' \in BOOLEAN /\ at_base' \in BOOLEAN
    BY <1>26, Zenon DEF OnNothing, Handle, mode, kept
  <2>2. skipped' \in BOOLEAN /\ on_air' \in BOOLEAN /\ slept' \in BOOLEAN
    BY <1>26, Zenon DEF OnNothing, Handle, mode, kept
  <2>3. flags' \subseteq Flag
    BY <1>26 DEF OnNothing, Handle, mode, kept
  <2>4. fifo' \in 0 .. payload' \cup {Garbage} /\ payload' \in Nat /\ calls' \in 0 .. MaxCalls
    BY <1>26 DEF OnNothing, Handle, mode, kept
  <2>. QED
    BY <1>26, <2>1, <2>2, <2>3, <2>4 DEF OnNothing, Handle, mode, kept
<1>27. CASE UNCHANGED vars
  BY <1>27 DEF TypeOK, vars, chipvars, kept
<1>. QED
  BY <1>1, <1>2, <1>3, <1>4, <1>5, <1>6, <1>7, <1>8, <1>9, <1>10, <1>11, <1>12, <1>13, <1>14, <1>15, <1>16, <1>17, <1>18, <1>19, <1>20, <1>21, <1>22, <1>23, <1>24, <1>25, <1>26, <1>27 DEF Next, Continue, SX1276OnDio0Irq

\* The cached mode and the chip's.
LEMMA CacheStep ==
  ASSUME TypeOK, CacheInv, ModemInv, PlaceInv, [Next]_vars
  PROVE  CacheInv'
<1>. USE DEF TypeOK, State, OpMode, Flag, Step
<1>1. CASE SX1276Init
  BY <1>1 DEF CacheInv, SX1276Init, Call, kept
<1>2. CASE Configure
  BY <1>2 DEF CacheInv, Configure, Call, SX1276SetModem, SleepForModem, SX1276SetOpMode, mode, kept
<1>3. CASE SX1276Send
  BY <1>3 DEF CacheInv, SX1276Send, Call, PointerToBase, SX1276SetOpMode, Goto, mode, kept
<1>4. CASE SX1276SetRx
  BY <1>4 DEF CacheInv, SX1276SetRx, Call, Map, Goto, mode, kept
<1>5. CASE SX1276StartCad
  BY <1>5 DEF CacheInv, SX1276StartCad, Call, Map, Goto, mode, kept
<1>6. CASE Stop("SLEEP")
  BY <1>6 DEF CacheInv, Stop, Call, SX1276SetOpMode, Goto, kept
<1>7. CASE Stop("STANDBY")
  BY <1>7 DEF CacheInv, Stop, Call, SX1276SetOpMode, Goto, kept
<1>8. CASE SX1276IsChannelFree
  BY <1>8 DEF CacheInv, SX1276IsChannelFree, Call, SX1276SetOpMode, Goto, kept
<1>9. CASE SX1276Random
  BY <1>9 DEF CacheInv, SX1276Random, Call, SX1276SetOpMode, Goto, kept
<1>10. CASE SX1276WriteFifo
  BY <1>10 DEF CacheInv, SX1276WriteFifo, At, Goto, mode, kept
<1>11. CASE SX1276SetTx
  BY <1>11 DEF CacheInv, SX1276SetTx, At, Map, LineForTx, Goto, mode, kept
<1>12. CASE SetTxState
  BY <1>12 DEF CacheInv, SetTxState, At, Goto, mode, kept
<1>13. CASE SetTxMode
  BY <1>13 DEF CacheInv, SetTxMode, At, SX1276SetOpMode, Goto, kept
<1>14. CASE SetRxState
  BY <1>14 DEF CacheInv, SetRxState, At, Goto, mode, kept
<1>15. CASE SetRxMode
  BY <1>15 DEF CacheInv, SetRxMode, At, SX1276SetOpMode, Goto, kept
<1>16. CASE SetCadState
  BY <1>16 DEF CacheInv, SetCadState, At, Goto, mode, kept
<1>17. CASE SetCadMode
  BY <1>17 DEF CacheInv, SetCadMode, At, SX1276SetOpMode, Goto, kept
<1>18. CASE StopState
  BY <1>18 DEF CacheInv, StopState, At, StoppedState, Goto, mode, kept
<1>19. CASE SenseEnds
  BY <1>19 DEF CacheInv, SenseEnds, At, SX1276SetOpMode, Goto, kept
<1>20. CASE TxFinishes
  BY <1>20 DEF CacheInv, TxFinishes, Finish, Raise, kept
<1>21. CASE CadFinishes
  BY <1>21 DEF CacheInv, CadFinishes, Finish, Raise, kept
<1>22. CASE FrameReceived
  BY <1>22 DEF CacheInv, FrameReceived, Raise, mode, kept
<1>23. CASE OnRxDone
  BY <1>23 DEF CacheInv, OnRxDone, Handle, Clear, mode, kept
<1>24. CASE OnTxDone
  BY <1>24 DEF CacheInv, OnTxDone, Handle, Clear, AfterTxDone, mode, kept
<1>25. CASE OnCadDone
  BY <1>25 DEF CacheInv, OnCadDone, Handle, Clear, mode, kept
<1>26. CASE OnNothing
  BY <1>26 DEF CacheInv, OnNothing, Handle, mode, kept
<1>27. CASE UNCHANGED vars
  BY <1>27 DEF CacheInv, vars, chipvars, kept
<1>. QED
  BY <1>1, <1>2, <1>3, <1>4, <1>5, <1>6, <1>7, <1>8, <1>9, <1>10, <1>11, <1>12, <1>13, <1>14, <1>15, <1>16, <1>17, <1>18, <1>19, <1>20, <1>21, <1>22, <1>23, <1>24, <1>25, <1>26, <1>27 DEF Next, Continue, SX1276OnDio0Irq

\* The modem and the LongRangeMode bit.
LEMMA ModemStep ==
  ASSUME TypeOK, CacheInv, ModemInv, PlaceInv, [Next]_vars
  PROVE  ModemInv'
<1>. USE DEF TypeOK, State, OpMode, Flag, Step
<1>1. CASE SX1276Init
  BY <1>1 DEF ModemInv, CacheInv, PlaceInv, SX1276Init, Call, kept
<1>2. CASE Configure
  BY <1>2 DEF ModemInv, CacheInv, PlaceInv, Configure, Call, SX1276SetModem, SleepForModem, SX1276SetOpMode, mode, kept
<1>3. CASE SX1276Send
  BY <1>3 DEF ModemInv, CacheInv, PlaceInv, SX1276Send, Call, PointerToBase, SX1276SetOpMode, Goto, mode, kept
<1>4. CASE SX1276SetRx
  BY <1>4 DEF ModemInv, CacheInv, PlaceInv, SX1276SetRx, Call, Map, Goto, mode, kept
<1>5. CASE SX1276StartCad
  BY <1>5 DEF ModemInv, CacheInv, PlaceInv, SX1276StartCad, Call, Map, Goto, mode, kept
<1>6. CASE Stop("SLEEP")
  BY <1>6 DEF ModemInv, CacheInv, PlaceInv, Stop, Call, SX1276SetOpMode, Goto, kept
<1>7. CASE Stop("STANDBY")
  BY <1>7 DEF ModemInv, CacheInv, PlaceInv, Stop, Call, SX1276SetOpMode, Goto, kept
<1>8. CASE SX1276IsChannelFree
  BY <1>8 DEF ModemInv, CacheInv, PlaceInv, SX1276IsChannelFree, Call, SX1276SetOpMode, Goto, kept
<1>9. CASE SX1276Random
  BY <1>9 DEF ModemInv, CacheInv, PlaceInv, SX1276Random, Call, SX1276SetOpMode, Goto, kept
<1>10. CASE SX1276WriteFifo
  BY <1>10 DEF ModemInv, CacheInv, PlaceInv, SX1276WriteFifo, At, Goto, mode, kept
<1>11. CASE SX1276SetTx
  BY <1>11 DEF ModemInv, CacheInv, PlaceInv, SX1276SetTx, At, Map, LineForTx, Goto, mode, kept
<1>12. CASE SetTxState
  BY <1>12 DEF ModemInv, CacheInv, PlaceInv, SetTxState, At, Goto, mode, kept
<1>13. CASE SetTxMode
  BY <1>13 DEF ModemInv, CacheInv, PlaceInv, SetTxMode, At, SX1276SetOpMode, Goto, kept
<1>14. CASE SetRxState
  BY <1>14 DEF ModemInv, CacheInv, PlaceInv, SetRxState, At, Goto, mode, kept
<1>15. CASE SetRxMode
  BY <1>15 DEF ModemInv, CacheInv, PlaceInv, SetRxMode, At, SX1276SetOpMode, Goto, kept
<1>16. CASE SetCadState
  BY <1>16 DEF ModemInv, CacheInv, PlaceInv, SetCadState, At, Goto, mode, kept
<1>17. CASE SetCadMode
  BY <1>17 DEF ModemInv, CacheInv, PlaceInv, SetCadMode, At, SX1276SetOpMode, Goto, kept
<1>18. CASE StopState
  BY <1>18 DEF ModemInv, CacheInv, PlaceInv, StopState, At, StoppedState, Goto, mode, kept
<1>19. CASE SenseEnds
  BY <1>19 DEF ModemInv, CacheInv, PlaceInv, SenseEnds, At, SX1276SetOpMode, Goto, kept
<1>20. CASE TxFinishes
  BY <1>20 DEF ModemInv, CacheInv, PlaceInv, TxFinishes, Finish, Raise, kept
<1>21. CASE CadFinishes
  BY <1>21 DEF ModemInv, CacheInv, PlaceInv, CadFinishes, Finish, Raise, kept
<1>22. CASE FrameReceived
  BY <1>22 DEF ModemInv, CacheInv, PlaceInv, FrameReceived, Raise, mode, kept
<1>23. CASE OnRxDone
  BY <1>23 DEF ModemInv, CacheInv, PlaceInv, OnRxDone, Handle, Clear, mode, kept
<1>24. CASE OnTxDone
  BY <1>24 DEF ModemInv, CacheInv, PlaceInv, OnTxDone, Handle, Clear, AfterTxDone, mode, kept
<1>25. CASE OnCadDone
  BY <1>25 DEF ModemInv, CacheInv, PlaceInv, OnCadDone, Handle, Clear, mode, kept
<1>26. CASE OnNothing
  BY <1>26 DEF ModemInv, CacheInv, PlaceInv, OnNothing, Handle, mode, kept
<1>27. CASE UNCHANGED vars
  BY <1>27 DEF ModemInv, CacheInv, PlaceInv, vars, chipvars, kept
<1>. QED
  BY <1>1, <1>2, <1>3, <1>4, <1>5, <1>6, <1>7, <1>8, <1>9, <1>10, <1>11, <1>12, <1>13, <1>14, <1>15, <1>16, <1>17, <1>18, <1>19, <1>20, <1>21, <1>22, <1>23, <1>24, <1>25, <1>26, <1>27 DEF Next, Continue, SX1276OnDio0Irq

\* The flags and the line.
LEMMA FlagStep ==
  ASSUME TypeOK, FlagInv, HandlerInv, [Next]_vars
  PROVE  FlagInv'
<1>. USE DEF TypeOK, State, OpMode, Flag, Step
<1>1. CASE SX1276Init
  BY <1>1 DEF FlagInv, HandlerInv, SX1276Init, Call, kept
<1>2. CASE Configure
  BY <1>2 DEF FlagInv, HandlerInv, Configure, Call, SX1276SetModem, SleepForModem, SX1276SetOpMode, mode, kept
<1>3. CASE SX1276Send
  BY <1>3 DEF FlagInv, HandlerInv, SX1276Send, Call, PointerToBase, SX1276SetOpMode, Goto, mode, kept
<1>4. CASE SX1276SetRx
  BY <1>4 DEF FlagInv, HandlerInv, SX1276SetRx, Call, Map, Goto, mode, kept
<1>5. CASE SX1276StartCad
  BY <1>5 DEF FlagInv, HandlerInv, SX1276StartCad, Call, Map, Goto, mode, kept
<1>6. CASE Stop("SLEEP")
  BY <1>6 DEF FlagInv, HandlerInv, Stop, Call, SX1276SetOpMode, Goto, kept
<1>7. CASE Stop("STANDBY")
  BY <1>7 DEF FlagInv, HandlerInv, Stop, Call, SX1276SetOpMode, Goto, kept
<1>8. CASE SX1276IsChannelFree
  BY <1>8 DEF FlagInv, HandlerInv, SX1276IsChannelFree, Call, SX1276SetOpMode, Goto, kept
<1>9. CASE SX1276Random
  BY <1>9 DEF FlagInv, HandlerInv, SX1276Random, Call, SX1276SetOpMode, Goto, kept
<1>10. CASE SX1276WriteFifo
  BY <1>10 DEF FlagInv, HandlerInv, SX1276WriteFifo, At, Goto, mode, kept
<1>11. CASE SX1276SetTx
  BY <1>11 DEF FlagInv, HandlerInv, SX1276SetTx, At, Map, LineForTx, Goto, mode, kept
<1>12. CASE SetTxState
  BY <1>12 DEF FlagInv, HandlerInv, SetTxState, At, Goto, mode, kept
<1>13. CASE SetTxMode
  BY <1>13 DEF FlagInv, HandlerInv, SetTxMode, At, SX1276SetOpMode, Goto, kept
<1>14. CASE SetRxState
  BY <1>14 DEF FlagInv, HandlerInv, SetRxState, At, Goto, mode, kept
<1>15. CASE SetRxMode
  BY <1>15 DEF FlagInv, HandlerInv, SetRxMode, At, SX1276SetOpMode, Goto, kept
<1>16. CASE SetCadState
  BY <1>16 DEF FlagInv, HandlerInv, SetCadState, At, Goto, mode, kept
<1>17. CASE SetCadMode
  BY <1>17 DEF FlagInv, HandlerInv, SetCadMode, At, SX1276SetOpMode, Goto, kept
<1>18. CASE StopState
  BY <1>18 DEF FlagInv, HandlerInv, StopState, At, StoppedState, Goto, mode, kept
<1>19. CASE SenseEnds
  BY <1>19 DEF FlagInv, HandlerInv, SenseEnds, At, SX1276SetOpMode, Goto, kept
<1>20. CASE TxFinishes
  BY <1>20 DEF FlagInv, HandlerInv, TxFinishes, Finish, Raise, kept
<1>21. CASE CadFinishes
  BY <1>21 DEF FlagInv, HandlerInv, CadFinishes, Finish, Raise, kept
<1>22. CASE FrameReceived
  BY <1>22 DEF FlagInv, HandlerInv, FrameReceived, Raise, mode, kept
<1>23. CASE OnRxDone
  BY <1>23 DEF FlagInv, HandlerInv, OnRxDone, Handle, Clear, mode, kept
<1>24. CASE OnTxDone
  BY <1>24 DEF FlagInv, HandlerInv, OnTxDone, Handle, Clear, AfterTxDone, mode, kept
<1>25. CASE OnCadDone
  BY <1>25 DEF FlagInv, HandlerInv, OnCadDone, Handle, Clear, mode, kept
<1>26. CASE OnNothing
  BY <1>26 DEF FlagInv, HandlerInv, OnNothing, Handle, mode, kept
<1>27. CASE UNCHANGED vars
  BY <1>27 DEF FlagInv, HandlerInv, vars, chipvars, kept
<1>. QED
  BY <1>1, <1>2, <1>3, <1>4, <1>5, <1>6, <1>7, <1>8, <1>9, <1>10, <1>11, <1>12, <1>13, <1>14, <1>15, <1>16, <1>17, <1>18, <1>19, <1>20, <1>21, <1>22, <1>23, <1>24, <1>25, <1>26, <1>27 DEF Next, Continue, SX1276OnDio0Irq

\* The line and the state.
LEMMA HandlerStep ==
  ASSUME TypeOK, CacheInv, FlagInv, HandlerInv, PlaceInv, [Next]_vars
  PROVE  HandlerInv'
<1>. USE DEF TypeOK, State, OpMode, Flag, Step
<1>1. CASE SX1276Init
  BY <1>1 DEF HandlerInv, CacheInv, FlagInv, PlaceInv, Agree, SX1276Init, Call, kept
<1>2. CASE Configure
  BY <1>2 DEF HandlerInv, CacheInv, FlagInv, PlaceInv, Agree, Configure, Call, SX1276SetModem, SleepForModem, SX1276SetOpMode, mode, kept
<1>3. CASE SX1276Send
  BY <1>3 DEF HandlerInv, CacheInv, FlagInv, PlaceInv, Agree, SX1276Send, Call, PointerToBase, SX1276SetOpMode, Goto, mode, kept
<1>4. CASE SX1276SetRx
  BY <1>4 DEF HandlerInv, CacheInv, FlagInv, PlaceInv, Agree, SX1276SetRx, Call, Map, Goto, mode, kept
<1>5. CASE SX1276StartCad
  BY <1>5 DEF HandlerInv, CacheInv, FlagInv, PlaceInv, Agree, SX1276StartCad, Call, Map, Goto, mode, kept
<1>6. CASE Stop("SLEEP")
  BY <1>6 DEF HandlerInv, CacheInv, FlagInv, PlaceInv, Agree, Stop, Call, SX1276SetOpMode, Goto, kept
<1>7. CASE Stop("STANDBY")
  BY <1>7 DEF HandlerInv, CacheInv, FlagInv, PlaceInv, Agree, Stop, Call, SX1276SetOpMode, Goto, kept
<1>8. CASE SX1276IsChannelFree
  BY <1>8 DEF HandlerInv, CacheInv, FlagInv, PlaceInv, Agree, SX1276IsChannelFree, Call, SX1276SetOpMode, Goto, kept
<1>9. CASE SX1276Random
  BY <1>9 DEF HandlerInv, CacheInv, FlagInv, PlaceInv, Agree, SX1276Random, Call, SX1276SetOpMode, Goto, kept
<1>10. CASE SX1276WriteFifo
  BY <1>10 DEF HandlerInv, CacheInv, FlagInv, PlaceInv, Agree, SX1276WriteFifo, At, Goto, mode, kept
<1>11. CASE SX1276SetTx
  BY <1>11 DEF HandlerInv, CacheInv, FlagInv, PlaceInv, Agree, SX1276SetTx, At, Map, LineForTx, Goto, mode, kept
<1>12. CASE SetTxState
  BY <1>12 DEF HandlerInv, CacheInv, FlagInv, PlaceInv, Agree, SetTxState, At, Goto, mode, kept
<1>13. CASE SetTxMode
  BY <1>13 DEF HandlerInv, CacheInv, FlagInv, PlaceInv, Agree, SetTxMode, At, SX1276SetOpMode, Goto, kept
<1>14. CASE SetRxState
  BY <1>14 DEF HandlerInv, CacheInv, FlagInv, PlaceInv, Agree, SetRxState, At, Goto, mode, kept
<1>15. CASE SetRxMode
  BY <1>15 DEF HandlerInv, CacheInv, FlagInv, PlaceInv, Agree, SetRxMode, At, SX1276SetOpMode, Goto, kept
<1>16. CASE SetCadState
  BY <1>16 DEF HandlerInv, CacheInv, FlagInv, PlaceInv, Agree, SetCadState, At, Goto, mode, kept
<1>17. CASE SetCadMode
  BY <1>17 DEF HandlerInv, CacheInv, FlagInv, PlaceInv, Agree, SetCadMode, At, SX1276SetOpMode, Goto, kept
<1>18. CASE StopState
  BY <1>18 DEF HandlerInv, CacheInv, FlagInv, PlaceInv, Agree, StopState, At, StoppedState, Goto, mode, kept
<1>19. CASE SenseEnds
  BY <1>19 DEF HandlerInv, CacheInv, FlagInv, PlaceInv, Agree, SenseEnds, At, SX1276SetOpMode, Goto, kept
<1>20. CASE TxFinishes
  BY <1>20 DEF HandlerInv, CacheInv, FlagInv, PlaceInv, Agree, TxFinishes, Finish, Raise, kept
<1>21. CASE CadFinishes
  BY <1>21 DEF HandlerInv, CacheInv, FlagInv, PlaceInv, Agree, CadFinishes, Finish, Raise, kept
<1>22. CASE FrameReceived
  BY <1>22 DEF HandlerInv, CacheInv, FlagInv, PlaceInv, Agree, FrameReceived, Raise, mode, kept
<1>23. CASE OnRxDone
  BY <1>23 DEF HandlerInv, CacheInv, FlagInv, PlaceInv, Agree, OnRxDone, Handle, Clear, mode, kept
<1>24. CASE OnTxDone
  BY <1>24 DEF HandlerInv, CacheInv, FlagInv, PlaceInv, Agree, OnTxDone, Handle, Clear, AfterTxDone, mode, kept
<1>25. CASE OnCadDone
  BY <1>25 DEF HandlerInv, CacheInv, FlagInv, PlaceInv, Agree, OnCadDone, Handle, Clear, mode, kept
<1>26. CASE OnNothing
  BY <1>26 DEF HandlerInv, CacheInv, FlagInv, PlaceInv, Agree, OnNothing, Handle, mode, kept
<1>27. CASE UNCHANGED vars
  BY <1>27 DEF HandlerInv, CacheInv, FlagInv, PlaceInv, Agree, vars, chipvars, kept
<1>. QED
  BY <1>1, <1>2, <1>3, <1>4, <1>5, <1>6, <1>7, <1>8, <1>9, <1>10, <1>11, <1>12, <1>13, <1>14, <1>15, <1>16, <1>17, <1>18, <1>19, <1>20, <1>21, <1>22, <1>23, <1>24, <1>25, <1>26, <1>27 DEF Next, Continue, SX1276OnDio0Irq

\* The places in a call.
LEMMA PlaceStep ==
  ASSUME TypeOK, CacheInv, ModemInv, FlagInv, HandlerInv, PlaceInv, [Next]_vars
  PROVE  PlaceInv'
<1>. USE DEF TypeOK, State, OpMode, Flag, Step
<1>1. CASE SX1276Init
  BY <1>1 DEF PlaceInv, Agree, HandlerInv, FlagInv, CacheInv, ModemInv, SX1276Init, Call, kept
<1>2. CASE Configure
  BY <1>2 DEF PlaceInv, Agree, HandlerInv, FlagInv, CacheInv, ModemInv, Configure, Call, SX1276SetModem, SleepForModem, SX1276SetOpMode, mode, kept
<1>3. CASE SX1276Send
  BY <1>3 DEF PlaceInv, Agree, HandlerInv, FlagInv, CacheInv, ModemInv, SX1276Send, Call, PointerToBase, SX1276SetOpMode, Goto, mode, kept
<1>4. CASE SX1276SetRx
  BY <1>4 DEF PlaceInv, Agree, HandlerInv, FlagInv, CacheInv, ModemInv, SX1276SetRx, Call, Map, Goto, mode, kept
<1>5. CASE SX1276StartCad
  BY <1>5 DEF PlaceInv, Agree, HandlerInv, FlagInv, CacheInv, ModemInv, SX1276StartCad, Call, Map, Goto, mode, kept
<1>6. CASE Stop("SLEEP")
  BY <1>6 DEF PlaceInv, Agree, HandlerInv, FlagInv, CacheInv, ModemInv, Stop, Call, SX1276SetOpMode, Goto, kept
<1>7. CASE Stop("STANDBY")
  BY <1>7 DEF PlaceInv, Agree, HandlerInv, FlagInv, CacheInv, ModemInv, Stop, Call, SX1276SetOpMode, Goto, kept
<1>8. CASE SX1276IsChannelFree
  BY <1>8 DEF PlaceInv, Agree, HandlerInv, FlagInv, CacheInv, ModemInv, SX1276IsChannelFree, Call, SX1276SetOpMode, Goto, kept
<1>9. CASE SX1276Random
  BY <1>9 DEF PlaceInv, Agree, HandlerInv, FlagInv, CacheInv, ModemInv, SX1276Random, Call, SX1276SetOpMode, Goto, kept
<1>10. CASE SX1276WriteFifo
  BY <1>10 DEF PlaceInv, Agree, HandlerInv, FlagInv, CacheInv, ModemInv, SX1276WriteFifo, At, Goto, mode, kept
<1>11. CASE SX1276SetTx
  BY <1>11 DEF PlaceInv, Agree, HandlerInv, FlagInv, CacheInv, ModemInv, SX1276SetTx, At, Map, LineForTx, Goto, mode, kept
<1>12. CASE SetTxState
  BY <1>12 DEF PlaceInv, Agree, HandlerInv, FlagInv, CacheInv, ModemInv, SetTxState, At, Goto, mode, kept
<1>13. CASE SetTxMode
  BY <1>13 DEF PlaceInv, Agree, HandlerInv, FlagInv, CacheInv, ModemInv, SetTxMode, At, SX1276SetOpMode, Goto, kept
<1>14. CASE SetRxState
  BY <1>14 DEF PlaceInv, Agree, HandlerInv, FlagInv, CacheInv, ModemInv, SetRxState, At, Goto, mode, kept
<1>15. CASE SetRxMode
  BY <1>15 DEF PlaceInv, Agree, HandlerInv, FlagInv, CacheInv, ModemInv, SetRxMode, At, SX1276SetOpMode, Goto, kept
<1>16. CASE SetCadState
  BY <1>16 DEF PlaceInv, Agree, HandlerInv, FlagInv, CacheInv, ModemInv, SetCadState, At, Goto, mode, kept
<1>17. CASE SetCadMode
  BY <1>17 DEF PlaceInv, Agree, HandlerInv, FlagInv, CacheInv, ModemInv, SetCadMode, At, SX1276SetOpMode, Goto, kept
<1>18. CASE StopState
  BY <1>18 DEF PlaceInv, Agree, HandlerInv, FlagInv, CacheInv, ModemInv, StopState, At, StoppedState, Goto, mode, kept
<1>19. CASE SenseEnds
  BY <1>19 DEF PlaceInv, Agree, HandlerInv, FlagInv, CacheInv, ModemInv, SenseEnds, At, SX1276SetOpMode, Goto, kept
<1>20. CASE TxFinishes
  BY <1>20 DEF PlaceInv, Agree, HandlerInv, FlagInv, CacheInv, ModemInv, TxFinishes, Finish, Raise, kept
<1>21. CASE CadFinishes
  BY <1>21 DEF PlaceInv, Agree, HandlerInv, FlagInv, CacheInv, ModemInv, CadFinishes, Finish, Raise, kept
<1>22. CASE FrameReceived
  BY <1>22 DEF PlaceInv, Agree, HandlerInv, FlagInv, CacheInv, ModemInv, FrameReceived, Raise, mode, kept
<1>23. CASE OnRxDone
  BY <1>23 DEF PlaceInv, Agree, HandlerInv, FlagInv, CacheInv, ModemInv, OnRxDone, Handle, Clear, mode, kept
<1>24. CASE OnTxDone
  BY <1>24 DEF PlaceInv, Agree, HandlerInv, FlagInv, CacheInv, ModemInv, OnTxDone, Handle, Clear, AfterTxDone, mode, kept
<1>25. CASE OnCadDone
  BY <1>25 DEF PlaceInv, Agree, HandlerInv, FlagInv, CacheInv, ModemInv, OnCadDone, Handle, Clear, mode, kept
<1>26. CASE OnNothing
  BY <1>26 DEF PlaceInv, Agree, HandlerInv, FlagInv, CacheInv, ModemInv, OnNothing, Handle, mode, kept
<1>27. CASE UNCHANGED vars
  BY <1>27 DEF PlaceInv, Agree, HandlerInv, FlagInv, CacheInv, ModemInv, vars, chipvars, kept
<1>. QED
  BY <1>1, <1>2, <1>3, <1>4, <1>5, <1>6, <1>7, <1>8, <1>9, <1>10, <1>11, <1>12, <1>13, <1>14, <1>15, <1>16, <1>17, <1>18, <1>19, <1>20, <1>21, <1>22, <1>23, <1>24, <1>25, <1>26, <1>27 DEF Next, Continue, SX1276OnDio0Irq

\* The payload.
LEMMA PayloadStep ==
  ASSUME TypeOK, CacheInv, PlaceInv, PayloadInv, [Next]_vars
  PROVE  PayloadInv'
<1>. USE DEF TypeOK, State, OpMode, Flag, Step
<1>1. CASE SX1276Init
  BY <1>1 DEF PayloadInv, Sending, AirIsPayload, PlaceInv, Agree, CacheInv, SX1276Init, Call, kept
<1>2. CASE Configure
  BY <1>2 DEF PayloadInv, Sending, AirIsPayload, PlaceInv, Agree, CacheInv, Configure, Call, SX1276SetModem, SleepForModem, SX1276SetOpMode, mode, kept
<1>3. CASE SX1276Send
  BY <1>3 DEF PayloadInv, Sending, AirIsPayload, PlaceInv, Agree, CacheInv, SX1276Send, Call, PointerToBase, SX1276SetOpMode, Goto, mode, kept
<1>4. CASE SX1276SetRx
  BY <1>4 DEF PayloadInv, Sending, AirIsPayload, PlaceInv, Agree, CacheInv, SX1276SetRx, Call, Map, Goto, mode, kept
<1>5. CASE SX1276StartCad
  BY <1>5 DEF PayloadInv, Sending, AirIsPayload, PlaceInv, Agree, CacheInv, SX1276StartCad, Call, Map, Goto, mode, kept
<1>6. CASE Stop("SLEEP")
  BY <1>6 DEF PayloadInv, Sending, AirIsPayload, PlaceInv, Agree, CacheInv, Stop, Call, SX1276SetOpMode, Goto, kept
<1>7. CASE Stop("STANDBY")
  BY <1>7 DEF PayloadInv, Sending, AirIsPayload, PlaceInv, Agree, CacheInv, Stop, Call, SX1276SetOpMode, Goto, kept
<1>8. CASE SX1276IsChannelFree
  BY <1>8 DEF PayloadInv, Sending, AirIsPayload, PlaceInv, Agree, CacheInv, SX1276IsChannelFree, Call, SX1276SetOpMode, Goto, kept
<1>9. CASE SX1276Random
  BY <1>9 DEF PayloadInv, Sending, AirIsPayload, PlaceInv, Agree, CacheInv, SX1276Random, Call, SX1276SetOpMode, Goto, kept
<1>10. CASE SX1276WriteFifo
  BY <1>10 DEF PayloadInv, Sending, AirIsPayload, PlaceInv, Agree, CacheInv, SX1276WriteFifo, At, Goto, mode, kept
<1>11. CASE SX1276SetTx
  BY <1>11 DEF PayloadInv, Sending, AirIsPayload, PlaceInv, Agree, CacheInv, SX1276SetTx, At, Map, LineForTx, Goto, mode, kept
<1>12. CASE SetTxState
  BY <1>12 DEF PayloadInv, Sending, AirIsPayload, PlaceInv, Agree, CacheInv, SetTxState, At, Goto, mode, kept
<1>13. CASE SetTxMode
  BY <1>13 DEF PayloadInv, Sending, AirIsPayload, PlaceInv, Agree, CacheInv, SetTxMode, At, SX1276SetOpMode, Goto, kept
<1>14. CASE SetRxState
  BY <1>14 DEF PayloadInv, Sending, AirIsPayload, PlaceInv, Agree, CacheInv, SetRxState, At, Goto, mode, kept
<1>15. CASE SetRxMode
  BY <1>15 DEF PayloadInv, Sending, AirIsPayload, PlaceInv, Agree, CacheInv, SetRxMode, At, SX1276SetOpMode, Goto, kept
<1>16. CASE SetCadState
  BY <1>16 DEF PayloadInv, Sending, AirIsPayload, PlaceInv, Agree, CacheInv, SetCadState, At, Goto, mode, kept
<1>17. CASE SetCadMode
  BY <1>17 DEF PayloadInv, Sending, AirIsPayload, PlaceInv, Agree, CacheInv, SetCadMode, At, SX1276SetOpMode, Goto, kept
<1>18. CASE StopState
  BY <1>18 DEF PayloadInv, Sending, AirIsPayload, PlaceInv, Agree, CacheInv, StopState, At, StoppedState, Goto, mode, kept
<1>19. CASE SenseEnds
  BY <1>19 DEF PayloadInv, Sending, AirIsPayload, PlaceInv, Agree, CacheInv, SenseEnds, At, SX1276SetOpMode, Goto, kept
<1>20. CASE TxFinishes
  BY <1>20 DEF PayloadInv, Sending, AirIsPayload, PlaceInv, Agree, CacheInv, TxFinishes, Finish, Raise, kept
<1>21. CASE CadFinishes
  BY <1>21 DEF PayloadInv, Sending, AirIsPayload, PlaceInv, Agree, CacheInv, CadFinishes, Finish, Raise, kept
<1>22. CASE FrameReceived
  BY <1>22 DEF PayloadInv, Sending, AirIsPayload, PlaceInv, Agree, CacheInv, FrameReceived, Raise, mode, kept
<1>23. CASE OnRxDone
  BY <1>23 DEF PayloadInv, Sending, AirIsPayload, PlaceInv, Agree, CacheInv, OnRxDone, Handle, Clear, mode, kept
<1>24. CASE OnTxDone
  BY <1>24 DEF PayloadInv, Sending, AirIsPayload, PlaceInv, Agree, CacheInv, OnTxDone, Handle, Clear, AfterTxDone, mode, kept
<1>25. CASE OnCadDone
  BY <1>25 DEF PayloadInv, Sending, AirIsPayload, PlaceInv, Agree, CacheInv, OnCadDone, Handle, Clear, mode, kept
<1>26. CASE OnNothing
  BY <1>26 DEF PayloadInv, Sending, AirIsPayload, PlaceInv, Agree, CacheInv, OnNothing, Handle, mode, kept
<1>27. CASE UNCHANGED vars
  BY <1>27 DEF PayloadInv, Sending, AirIsPayload, PlaceInv, Agree, CacheInv, vars, chipvars, kept
<1>. QED
  BY <1>1, <1>2, <1>3, <1>4, <1>5, <1>6, <1>7, <1>8, <1>9, <1>10, <1>11, <1>12, <1>13, <1>14, <1>15, <1>16, <1>17, <1>18, <1>19, <1>20, <1>21, <1>22, <1>23, <1>24, <1>25, <1>26, <1>27 DEF Next, Continue, SX1276OnDio0Irq

\* The driver starts with everything idle and in agreement.
LEMMA Initially == Init => IInv
<1>. SUFFICES ASSUME Init
              PROVE  IInv
  OBVIOUS
<1>1. TypeOK
  <2>1. fifo \in 0 .. payload \cup {Garbage} /\ payload \in Nat /\ calls \in 0 .. MaxCalls
    BY Sx1276Assumption DEF Init
  <2>2. /\ continuous \in BOOLEAN /\ long_range \in BOOLEAN /\ irq \in BOOLEAN
        /\ at_base \in BOOLEAN
    BY Zenon DEF Init
  <2>3. skipped \in BOOLEAN /\ on_air \in BOOLEAN /\ slept \in BOOLEAN
    BY Zenon DEF Init
  <2>. QED
    BY <2>1, <2>2, <2>3 DEF Init, TypeOK, State, OpMode, Flag, Step
<1>2. CacheInv /\ ModemInv /\ FlagInv /\ HandlerInv
  BY DEF Init, CacheInv, ModemInv, FlagInv, HandlerInv
<1>3. PlaceInv /\ PayloadInv
  BY DEF Init, PlaceInv, Agree, PayloadInv, Sending, AirIsPayload
<1>. QED
  BY <1>1, <1>2, <1>3 DEF IInv

LEMMA Invariant == Spec => []IInv
<1>1. IInv /\ [Next]_vars => IInv'
  <2>. SUFFICES ASSUME IInv, [Next]_vars
                PROVE  IInv'
    OBVIOUS
  <2>1. TypeOK'
    BY TypeStep DEF IInv
  <2>2. CacheInv' /\ ModemInv'
    BY CacheStep, ModemStep DEF IInv
  <2>3. FlagInv' /\ HandlerInv'
    BY FlagStep, HandlerStep DEF IInv
  <2>4. PlaceInv' /\ PayloadInv'
    BY PlaceStep, PayloadStep DEF IInv
  <2>. QED
    BY <2>1, <2>2, <2>3, <2>4 DEF IInv
<1>. QED
  BY Initially, <1>1, PTL DEF Spec

-----------------------------------------------------------------------------
\* Every variable of the driver and of the chip keeps its range, for any number
\* of calls (sx1276.c, radio.h:25-40).
THEOREM TypeCorrect == Spec => []TypeOK
<1>1. IInv => TypeOK
  BY DEF IInv
<1>. QED
  BY Invariant, <1>1, PTL

\* Between calls Settings.State is what the chip does, wherever SX1276OnDio0Irq
\* ran during the calls before, but for the exceptions StateIsTrue names.
THEOREM StateTrue == Spec => []StateIsTrue
<1>1. IInv => StateIsTrue
  BY DEF IInv, TypeOK, State, OpMode, CacheInv, PlaceInv, Agree, StateIsTrue, Settled
<1>. QED
  BY Invariant, <1>1, PTL

\* The handler never leaves the flag set that DIO0 shows: the driver never misses
\* an interrupt because the one before was ignored.
THEOREM LineFree == Spec => []LineIsFree
<1>1. IInv => LineIsFree
  BY DEF IInv, TypeOK, Flag, FlagInv, LineIsFree
<1>. QED
  BY Invariant, <1>1, PTL

\* The modem SX1276SetModem has recorded is the one the chip uses, wherever an
\* interrupt falls between the writes that change it.
THEOREM ModemTrue == Spec => []ModemIsTrue
<1>1. IInv => ModemIsTrue
  BY DEF IInv, ModemInv, ModemIsTrue
<1>. QED
  BY Invariant, <1>1, PTL

\* The bytes on the air are those given to SX1276Send.
THEOREM PayloadTrue == Spec => []AirIsPayload
<1>1. IInv => AirIsPayload
  BY DEF IInv, PayloadInv
<1>. QED
  BY Invariant, <1>1, PTL

=============================================================================
