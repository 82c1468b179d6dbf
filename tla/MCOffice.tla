------------------------------ MODULE MCOffice ------------------------------
\* Instances of what runs in the office of the club, with its liveness.
\* Components that share no rows, each explored in behaviours of its own: the
\* others rest in one initial state.
EXTENDS Delivery, Categories, FolderTree, TimeTracking, RateLimits, Membership

VARIABLE part    \* the component whose rows move in this behaviour

partVars == <<part, deliveryVars, categoryVars, foldersVars, timeVars,
                    limitVars, membershipVars>>

\* Times the event is moved between.
MCEventTimes == {<<1, 2>>, <<2, 3>>}
\* Two days of notice, to any day or to every second one.
MCNoticePeriods == {[days |-> 1, period |-> 2]}

Init ==
  /\ part \in {"mail", "categories", "folders", "hours", "limits",
                "membership"}
  /\ DeliveryInit
  /\ (part # "mail" => delivery.channel = "email")
  /\ CategoriesInit
  /\ FoldersInit
  /\ TimeInit
  /\ (part # "hours" => eventAt = <<1, 2>>)
  /\ RateLimitsInit
  /\ MembershipInit

Next ==
  \/ /\ part = "mail" /\ DeliveryNext
     /\ UNCHANGED <<part, categoryVars, foldersVars, timeVars, limitVars,
                    membershipVars>>
  \/ /\ part = "categories" /\ CategoriesNext
     /\ UNCHANGED <<part, deliveryVars, foldersVars, timeVars, limitVars,
                    membershipVars>>
  \/ /\ part = "folders" /\ FoldersNext
     /\ UNCHANGED <<part, deliveryVars, categoryVars, timeVars, limitVars,
                    membershipVars>>
  \/ /\ part = "hours" /\ TimeNext
     /\ UNCHANGED <<part, deliveryVars, categoryVars, foldersVars, limitVars,
                    membershipVars>>
  \/ /\ part = "limits" /\ RateLimitsNext
     /\ UNCHANGED <<part, deliveryVars, categoryVars, foldersVars, timeVars,
                    membershipVars>>
  \/ /\ part = "membership" /\ MembershipNext
     /\ UNCHANGED <<part, deliveryVars, categoryVars, foldersVars, timeVars,
                    limitVars>>

\* The fairness of the components that state one, for their own behaviours.
Spec ==
  /\ Init /\ [][Next]_partVars
  /\ WF_deliveryVars(part = "mail" /\ Work)
  /\ WF_deliveryVars(part = "mail" /\ Reap)
  /\ WF_categoryVars(part = "categories" /\ SweepsAges)
  /\ WF_categoryVars(part = "categories" /\ TellsAll)

\* Delivery's promise about every mail, where mails move: each
\* is sent, skipped or failed in the end.
MailSettles == part = "mail" => EventuallySettledMail

\* What keeps to a bound, together: the depth of the folders, and the
\* requests in a window of time.
BoundsPromise ==
  /\ FoldersPromise
  /\ LimitsPromise

=============================================================================
