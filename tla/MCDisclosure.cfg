SPECIFICATION DisclosureSpec
CONSTANTS
  app = app
  inv = inv
  con = con
  eng = eng
  ann = ann
  bob = bob
  listing = listing
  band = band
  None = None
  Requests = {app, inv, con, eng}
  Users = {ann, bob, eve}
  Places = {listing, band}
  Calls = {c1, c2, c3, c4}
  Viewers = {v1}
  Kind <- MCKind
  Asker <- MCAsker
  Answerer <- MCAnswerer
  Place <- MCPlace
CONSTRAINT OneRequest
SYMMETRY Interchangeable
CHECK_DEADLOCK FALSE
INVARIANTS
  DisclosureTypeOK
  RevealOnAccept
  WhatWasShownStays
