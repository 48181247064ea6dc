------------------------ MODULE MCNotificationQueue ------------------------
(* Small instances of NotificationQueue: two notifications of one group    *)
(* with a summary window and an immediate one of another group.            *)
EXTENDS NotificationQueue, TLC

CONSTANTS a, b, c

MCGroup == a :> "g" @@ b :> "g" @@ c :> "h"
MCWindow == a :> 2 @@ b :> 2 @@ c :> 0
=============================================================================
