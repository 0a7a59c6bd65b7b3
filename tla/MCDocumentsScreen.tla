-------------------------- MODULE MCDocumentsScreen --------------------------
(* TLC instance of DocumentsScreen.                                        *)
EXTENDS DocumentsScreen, TLC

ScreenSymmetry == Permutations(Documents) \cup Permutations(Requests)
=============================================================================
