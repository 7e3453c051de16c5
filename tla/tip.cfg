\* Two endpoints; one of them times out when it is asked for the tip.
CONSTANTS
  Endpoint = {1, 2}
  Fetcher = {f1}
  Main = main
  Attempts = 2
  Job = {1}
  Txs <- NoTxs
  Tracked = {}
  DayOfBlock <- OneDay
  MinDay = 0
SPECIFICATION FetchSpec
INVARIANT OnlyRaisesWhenAllFailed
