SPECIFICATION Spec
CONSTANTS
  Thread = {t1, t2}
  Link = {l1}
  MaxReq = 4
INVARIANTS TypeOK NoBypass CountersHonest
PROPERTIES LinksSpec
