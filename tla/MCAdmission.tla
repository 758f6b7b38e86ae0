---------------------------- MODULE MCAdmission ----------------------------
(* The instance of Admission for TLC: the path may lead to a file in the    *)
(* root, to none there, to a file beside it, or nowhere.                    *)
EXTENDS Admission

Files == {<<"media1", "film">>, <<"media1x", "film">>}
Reals == Files \cup {<<"media1", "gone">>, NoPath}
=============================================================================
