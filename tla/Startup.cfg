\* Two accounts, one of which sets nothing; every pair of sinks and every
\* combination of settings for the other.
SPECIFICATION Spec
CONSTANTS
  Accounts = {owner, guest}
  Guests = {guest}
  Legs = {"tmp file", "stderr", "own file", "https", "HTTPS", "s3", "nonsense"}
  MaxLegs = 2
  Nobody = Nobody
INVARIANTS
  NothingIsSilent
  PlaceholderStaysHome
  OnlyMistakesRefuse
