-------------------------- MODULE MCVirtualEnvironment --------------------------
\* VirtualEnvironment on a small instance.  Prices are multiples of 720, so that
\* the averages of up to three executions are whole numbers.
EXTENDS VirtualEnvironment
Points(n) == 720 * n
MCPrices == {Points(3), Points(5)}
MCLimits == {Points(3)}
MCReplays == {<<[seq |-> 1, price |-> Points(3)], [seq |-> 2, price |-> Points(5)]>>}
MCSpread == Points(1)
\* The market touches the firm by the prices of its ticks alone, and the bundle
\* touches neither: one of the three is busy at a time.
Apart ==
  LET trading == executions # <<>> \/ snapshot # None
      controlled == stream.open \/ Active \/ ~running \/ emitted.sleeps > 0 IN
  /\ ~(trading /\ controlled)
  /\ bundle.connected => ~trading /\ ~controlled
\* The third execution comes without a snapshot, and of the bridge's instrument.
Third ==
  Len(executions) = MaxExecutions =>
    snapshot = None /\ \A n \in 1..Len(executions) : executions[n].instrument = Instrument
\* The bridge's contract, another on the same underlying, one on another.
MCInstruments == {"kospi_call", "kospi_put", "mini_call"}
MCSymbolOf == [i \in MCInstruments |-> IF i = "mini_call" THEN "mini" ELSE "kospi"]
MCCapital == Points(14)
=============================================================================
