--------------------------- MODULE MCTrailingStop ---------------------------
(* An instance of TrailingStop for TLC. *)
EXTENDS TrailingStop

CONSTANTS f1, f2    \* fills of the attached order

\* A quarter of the price, two units, or two units off the moving average.
MCTrails == {[mode |-> "percent", value |-> 1], [mode |-> "absolute", value |-> 2],
             [mode |-> "moving_average", value |-> 2]}

MCRule(side, way, attached) ==
  [side |-> side, trail_mode |-> way.mode, trail_value |-> way.value,
   size |-> IF attached THEN 4 ELSE 2, attached |-> attached]

\* Both sides and every mode protect a position, and one of each side an order.
MCRules ==
  {MCRule(side, way, FALSE) : side \in {"long", "short"}, way \in MCTrails}
    \cup {MCRule("long", [mode |-> "percent", value |-> 1], TRUE),
          MCRule("short", [mode |-> "moving_average", value |-> 2], TRUE)}

\* Two fills; the rule's size is between the larger one and their sum.
MCSizeOf == [f \in Fills |-> IF f = f1 THEN 3 ELSE 2]

=============================================================================
