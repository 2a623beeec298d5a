----------------------------- MODULE MCTabQuit ------------------------------
(* Two restored tabs, and one more that may be opened.                     *)
EXTENDS TabQuit

CONSTANTS t1, t2, t3
TwoTabs == {t1, t2}
ThreeTabs == {t1, t2, t3}
=============================================================================
