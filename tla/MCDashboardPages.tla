-------------------------- MODULE MCDashboardPages --------------------------
EXTENDS DashboardPages

CONSTANTS u1, u2

\* CSV files: by address, by phone, with a malformed address
\* after a good row, and without amounts.
Row(s, p, a) == [stellar_address |-> s, phone |-> p, id |-> p, verification |-> p, amount |-> a, currency |-> "empty"]
MCFiles ==
    { [columns |-> {"destination", "amount"}, rows |-> <<Row("good", "empty", "good")>>],
      [columns |-> {"msisdn", "id", "amount", "verification"},
       rows |-> <<Row("empty", "some", "good"), Row("empty", "some", "good")>>],
      [columns |-> {"stellar_address", "amount"}, rows |-> <<Row("good", "empty", "good"), Row("bad", "empty", "good")>>],
      [columns |-> {"phone", "id", "verification"}, rows |-> <<Row("empty", "some", "good")>>] }

\* Rows of the audit log: the built-in ones and the backend's.
LogRow(i, a, d, h) == [id |-> i, action |-> a, day |-> d, hit |-> h]
MCSeed == {LogRow(<<"s", 1>>, "deposit", 1, TRUE), LogRow(<<"s", 4>>, "config", 2, FALSE)}
MCServer == {LogRow(<<"d", 1>>, "deposit", 1, TRUE)}

\* The feed: a row for each of two users.
MCFeed == {[id |-> 1, hits |-> {u1}], [id |-> 2, hits |-> {u2}]}
MCUsers == {u1, u2}
=============================================================================
