------------------------------ MODULE MCBooking ------------------------------
(* An instance of Booking: two trains, one of them with two coaches.       *)
EXTENDS Booking

CONSTANTS c1, c2

TwoClients == {c1, c2}
TwoAndOne == [c \in TwoClients |-> IF c = c1 THEN 2 ELSE 1]
FourBerths == 1 .. 4
TrainOf == <<1, 1, 1, 2>>
CoachOf == <<"A1", "A1", "A2", "A1">>
TypeOf == <<"AC", "AC", "AC", "AC">>
SeatOf == <<"LB", "UB", "LB", "LB">>
ThreeLines == {[train |-> 1, type |-> "AC", qty |-> 2, prefs |-> <<"LB", "LB">>],
          [train |-> 1, type |-> "AC", qty |-> 1, prefs |-> <<"NA">>],
          [train |-> 2, type |-> "AC", qty |-> 1, prefs |-> <<"LB">>]}
=============================================================================
