SPECIFICATION InboxSpec
CONSTANTS
  e1 = e1  e2 = e2  u1 = u1  u2 = u2
  OrderEvents = {e1, e2}
  Readers = {u1, u2}
  Targets <- ToAll
  Handlers = {h1}
  Polls = {}
  Marks = {}
  NoEvent = NoEvent  NoUser = NoUser
  MaxInboxFaults = 1
INVARIANT HandledIsDelivered
CHECK_DEADLOCK FALSE
