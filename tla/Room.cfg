SPECIFICATION Spec
CONSTANTS
  Thread = {t1, t2}
  Part <- Parts
  Room <- TwoRooms
  RoomMaxUses = 1
  MaxRound = 4
  MaxLag = 1
  MaxHits = 1
  NoReq = NoReq
INVARIANTS TypeOK QuotaPerRound CountsExact TicketReach StoreBounded
PROPERTIES RoomsApart
SYMMETRY Symmetry
