------------------------- MODULE MCPromptGovernance -------------------------
(* Small instances of the control panel for TLC. *)
EXTENDS RuntimePanel, TLC

CONSTANTS builtin, edited, ordering, dotted

OneRole == <<"trend_vol">>
TwoRoles == <<"trend_vol", "skeptic">>

\* A template both roles may save, one that gives an order, and one that does not render.
Full(wording) == [placeholders |-> Protected("skeptic"), wording |-> wording]
BuiltinText == Default("skeptic").text
MCText == {BuiltinText, Full(edited), Full(ordering)}
MCDottedText == MCText \cup {Full(dotted)}

MCModerate == {<<builtin, edited>>, <<edited, builtin>>, <<builtin, ordering>>, <<edited, ordering>>}
=============================================================================
