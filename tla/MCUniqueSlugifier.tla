-------------------------- MODULE MCUniqueSlugifier --------------------------
(***************************************************************************)
(* UniqueSlugifier on small instances.  "a" and "a-1" share candidates, so *)
(* one base's slugs land among the other's; "abc" and "ab" do once a small *)
(* max_length has cut them, and leaves no room for the first character of  *)
(* an accented word beside any suffix.                                   *)
(***************************************************************************)
EXTENDS UniqueSlugifier

Dash == <<"-">>
DashDash == <<"-", "-">>
Sharing == {<<"a">>, <<"a", "-", "1">>}
Crowded == {<<"a", "b", "c">>, <<"a", "b">>, <<"e acute", "t">>}
=============================================================================
