---------------------------- MODULE MCAuditFeed ----------------------------
(* Small instance of AuditFeed for TLC.                                    *)
EXTENDS AuditFeed

\* One door against any, one method against any; a type that is chosen in vain.
Events == [door : {"front"}, method : {"keypad", "manual"}, type : {"Unlocked"}]
            \cup [door : {"back"}, method : {"keypad"}, type : {"Denied"}]
Filters == [door : {Any, "back"}, method : {Any, "keypad"}, type : {Any, "Denied"}]
=============================================================================
