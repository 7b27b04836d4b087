----------------------------- MODULE MCRecipeRunner -----------------------------
(* Small instances of RecipeRunner for TLC.                                *)
EXTENDS RecipeRunner

CaptureAndCheck == <<"on", "read", "wait", "assert">>
SupplySteps == <<"on", "read">>
SwitchOff == <<"off">>
SettleAndOff == <<"wait", "off", "assert">>
NoFaults == {}
================================================================================
