--------------------------- MODULE MCInstallation ----------------------------
(* One installer, which may die and start again, with two bundle versions.  *)
EXTENDS Installation, TLC

CONSTANTS p1, m1

OneInstaller == {p1}
TwoVersions == {1, 2}
TwoSkills == <<"skill", "retiredSkill">>
OneAsset == <<"nested">>
NestedAsset == {"nested"}
OneServer == {m1}

\* The second version no longer ships what is called retired.
ShipsIn(v, f) == v = 1 \/ f # "retiredSkill"
=============================================================================
