---------------------------- MODULE MCQuestionnaire ----------------------------
EXTENDS Questionnaire, TLC

CONSTANTS b1, b2, b3, q1, q2, t1, t2

Symmetric == Permutations(Bookings) \cup Permutations(Questions) \cup Permutations(Texts)
=============================================================================
