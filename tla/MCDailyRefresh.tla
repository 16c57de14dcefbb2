---------------------------- MODULE MCDailyRefresh ----------------------------
(* Small instances of DailyRefresh for TLC.                                *)
EXTENDS DailyRefresh, TLC

CONSTANTS p1, p2, p3, u1, u2, u3

Pos(account, security, qty) ==
    [account |-> account, security |-> security, qty |-> qty, date |-> 1]

(* The file that agrees with the books, one that differs from them, one    *)
(* with an unknown ticker, and one without position rows.                  *)
Clean == <<Pos("acct_1", "sec_1", 1)>>
Differs == <<Pos("acct_1", "sec_1", 2), Pos("acct_1", "sec_2", 1)>>
Unknown == <<Pos("acct_1", "sec_1", 1), Pos("acct_1", "sec_9", 1)>>
MCFiles == {Clean, Differs, Unknown, <<>>}
MCTwoFiles == {Clean, Unknown}

MCBooks ==
    LET ids == "sec_1" :> "id_1" @@ "sec_2" :> "id_2"
    IN  [lots |-> <<"acct_1", "sec_1">> :> 1,
         marks |-> {1},
         ids |-> [isin |-> ids, cusip |-> ids],
         custodied |-> {"acct_1"}]
=============================================================================
