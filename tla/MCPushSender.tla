---------------------------- MODULE MCPushSender ----------------------------
(* Two workers, two devices, one counter that one thread may stand for.     *)
EXTENDS PushSender, TLC

CONSTANTS w1, w2, t1, t2, favoritos, f1

TwoWorkers == {w1, w2}
TwoTokens  == {t1, t2}
OneKind    == {favoritos}
OneThread  == {f1}
NoTag      == {}

=============================================================================
