-------------------------- MODULE MCServiceProcess --------------------------
(* Small instances of ServiceProcess for TLC. *)
EXTENDS ServiceProcess

(* Absent, empty and not a number; for PORT the template's and another,    *)
(* for the others zero and a number.                                       *)
SmallRaws ==
  [v \in Settings |->
     {Absent, EmptyText, Word}
       \cup (IF v = "PORT" THEN {Digits(3000), Digits(3001)} ELSE {Digits(0), Digits(5)})]

=============================================================================
