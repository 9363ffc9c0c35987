------------------------------ MODULE MCTtyBus ------------------------------
EXTENDS TtyBus
W(a, inc, data) == [kind |-> "write", a |-> a, inc |-> inc, data |-> data, len |-> Len(data)]
R(a, inc, n)    == [kind |-> "read", a |-> a, inc |-> inc, len |-> n, data |-> <<>>]
MCOps == {W(1, 0, <<1>>), W(0, 1, <<1, 2, 1>>), W(2, 1, <<2, 2, 1>>),
          R(0, 1, 3), R(1, 0, 1), R(1, 1, 2), R(2, 1, 2)}
=============================================================================
