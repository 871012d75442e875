SPECIFICATION Spec
CONSTANTS
  ali = ali
  bea = bea
  mon = mon
  tue = tue
  t10 = t10
  t1030 = t1030
  t1045 = t1045
  mon10 = mon10
  mon1030 = mon1030
  mon1045 = mon1045
  tue10 = tue10
  NoState = NoState
  NoDay = NoDay
  NoSlot = NoSlot
  NoTime = NoTime
  Customers = {ali, bea}
  Days = {mon, tue}
  Slots = {mon10, mon1030, mon1045, tue10}
  Suggested = {mon10, mon1045, tue10}
  Grid = {mon10, mon1030, tue10}
  MayBlock = {mon10}
  MaxRemovals = 1
  MaxSteps = 5
  InitialState = "topic"
  States <- MCStates
  Flow <- MCFlow
  DayOf <- MCDayOf
  TimeOf <- MCTimeOf
  Overlap <- MCOverlap
  Says <- MCSays
  FaultKinds = {"crash", "conflict", "calendar"}
  MaxFaults = 1
CHECK_DEADLOCK FALSE
INVARIANTS
  NeverLosesAppointment
  OverlapsNeedRaces
  WhatWasSaidHolds
  OneLeadPerRequest
  NoStrayAppointments
