------------------------------- MODULE Escrow -------------------------------
(***************************************************************************)
(* What any escrow promises: every deal is opened once with an amount and  *)
(* is paid out at most once, in three parts that add up to that amount     *)
(* exactly; the terms of a deal never change.  PromusMarket implements it. *)
(***************************************************************************)
EXTENDS Naturals, Sequences

CONSTANT Accounts

VARIABLE deals      \* Seq of deals, a deal's position is its id

Terms  == [buyer : Accounts, provider : Accounts, amount : Nat]
Parts  == [buyer : Nat, provider : Nat, fee : Nat]
Nothing == [buyer |-> 0, provider |-> 0, fee |-> 0]
Total(p) == p.buyer + p.provider + p.fee

Init == deals = <<>>

Open ==
    /\ Len(deals') = Len(deals) + 1
    /\ LET d == deals'[Len(deals')]
       IN  /\ d.terms \in Terms /\ d.open /\ d.parts = Nothing
           /\ deals' = Append(deals, d)

Close == \E i \in 1..Len(deals) :
    LET p == deals'[i].parts
    IN  /\ deals[i].open
        /\ p \in Parts /\ Total(p) = deals[i].terms.amount
        /\ deals' = [deals EXCEPT ![i] = [terms |-> deals[i].terms, open |-> FALSE,
                                         parts |-> p]]

Spec == Init /\ [][Open \/ Close]_deals
=============================================================================
