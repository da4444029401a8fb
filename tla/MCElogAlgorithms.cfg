\* bcd_to_bin on every byte and parse_evt_cnt on 97 counters.
INIT InitNumeric
NEXT Stay
INVARIANTS
  BcdDecodesDigits
  EvtCntMatchesLeadingOnes
CONSTANT Width = 30
