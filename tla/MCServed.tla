------------------------------ MODULE MCServed ------------------------------
(***************************************************************************)
(* What must happen in the end: the two masters of the bus are served, and *)
(* a call of the FFT service returns.  In a behaviour one of the two runs; *)
(* while the bus does, no call is made.                                    *)
(***************************************************************************)
EXTENDS WbBus, FftLink

VARIABLE part
servedvars == <<part, busvars, fftvars>>

NoCall ==
  /\ pc = "done" /\ call = 1 /\ h_id = FirstId /\ fpga_posn = 0 /\ nr = <<>>
  /\ data = [b \in 0 .. N - 1 |-> None]
  /\ fft_id = -1 /\ fft_posn = 0 /\ fft_state = "FFT_INPUT"
  /\ samples_in = <<>> /\ mem = <<>> /\ turn = "top" /\ pic = {}
  /\ nettx = TRUE /\ netbtx = None /\ waiting_pkt = None
  /\ up = <<>> /\ down = <<>> /\ faults = 0 /\ late = None

ServedInit == BusInit /\ ((part = "bus" /\ NoCall) \/ (part = "fft" /\ FftInit))

OnBus(A) == part = "bus" /\ A /\ UNCHANGED <<part, fftvars>>
Fft(A)   == part = "fft" /\ A /\ UNCHANGED <<part, busvars>>

\* The fairness is that of BusLiveSpec and of FftLiveSpec.
ServedSpec ==
  /\ ServedInit /\ [][OnBus(BusNext) \/ Fft(FftNext)]_servedvars
  /\ WF_servedvars(OnBus(BusNext)) /\ SF_servedvars(OnBus(Clock(TRUE)))
  /\ SF_servedvars(OnBus(BusNext /\ DebugEnds))
  /\ SF_servedvars(OnBus(BusNext /\ b_failed /\ ~b_cyc'))
  /\ SF_servedvars(Fft(HostSteps)) /\ WF_servedvars(Fft(Board))
  /\ WF_servedvars(Fft(TxDone)) /\ SF_servedvars(Fft(Tick))
=============================================================================
