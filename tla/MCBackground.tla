---------------------------- MODULE MCBackground ----------------------------
EXTENDS AccountBackground

\* What moves together
MCScenes == {{"pmpermit", "afk", "codemon", "switches", "restarts"},
             {"codemon", "afk", "notices", "restarts"}, {"codemon", "notices", "explorer"},
             {"groups", "switches", "schedule", "restarts"},
             {"pmpermit", "strangers", "restarts"}, {"pmpermit", "afk", "absence"}}
=============================================================================
