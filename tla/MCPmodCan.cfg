\* Two senders and the receiver; three looks at a status register.
CONSTANTS
  Senders = {s1, s2}
  Receiver = r
  Retries = 2
SPECIFICATION Spec
INVARIANTS TypeOK ExclusionUntilGiveUp PendingFrameIsAskers ResultsTellFates GiveUpIsForEver
