------------------------------ MODULE MCAnswers ------------------------------
(* TLC instances of Answers.                                               *)
EXTENDS Answers, TLC

AnswersSymmetry == Permutations(Documents) \cup Permutations(Models)
=============================================================================
