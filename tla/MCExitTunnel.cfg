\* One id, so that a second open meets the first one's session; two requests
\* and the janitor at a time.
CONSTANTS
  Ids = {i1}
  Conns = {c1, c2}
  Workers = {w1, w2}
  Janitor = janitor
  None = None
SPECIFICATION FairSpec
INVARIANTS TypeOK NoLeak OneOwner
PROPERTIES CloseQuiesced HubLive Implements
