SPECIFICATION SchedulerFairSpec
CONSTANTS
  Events = {e1, e2}
  Tickets = {1, 2}
  MaxTime = 1
  Nothing = Nothing
INVARIANT
  SchedulerInv
PROPERTIES
  AlarmsInOrder
  AlarmsGoOff
  IoIsHandled
