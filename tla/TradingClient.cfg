SPECIFICATION FairSpec
CONSTANTS
  Answers = {"receipt", "undecodable", "redirect", "denied", "limited", "server_error", "client_error"}
PROPERTIES KeepsContract Completes
CHECK_DEADLOCK FALSE
