-------------------------- MODULE MCMobilePayments --------------------------
EXTENDS MobilePayments

\* QR codes: SEP-0007 payments with a good and a bad amount, an envelope, the
\* app's own scheme with and without an amount, a plain account, other text.
Code(s, o, t, a, x) == [scheme |-> s, op |-> o, to |-> t, amount |-> a, memoType |-> "none", xdr |-> x]
MCCodes ==
    { Code("web+stellar", "pay", "stellar", "good", FALSE), Code("web+stellar", "pay", "stellar", "bad", FALSE),
      Code("web+stellar", "tx", "none", "none", TRUE), Code("zaps", "pay", "federated", "bad", FALSE),
      Code("zaps", "pay", "federated", "none", FALSE), Code("plain", "other", "stellar", "none", FALSE),
      Code("plain", "other", "other", "none", FALSE) }

\* Distribution lists: a faulty row beside a good one, nothing but a faulty
\* one, a missing header, and a good list.
Entry(n, f) == [name |-> n, faults |-> f]
MCFiles ==
    { [header |-> TRUE, rows |-> {Entry(1, {}), Entry(2, {"amount"})}],
      [header |-> TRUE, rows |-> {Entry(3, {"recipient_address"})}],
      [header |-> FALSE, rows |-> {Entry(1, {})}],
      [header |-> TRUE, rows |-> {Entry(4, {})}] }
=============================================================================
