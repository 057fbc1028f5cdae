SPECIFICATION Spec
CONSTANTS
  Address = {"a", "b"}
  Robot = {"drone", "rover"}
  Endpoint = {"video", "radio", "chat"}
  AddressOf <- MCAddressOf
  ModelOf <- MCModelOf
  Message = {1}
  From <- MCFrom
  To <- MCTo
  Medium = {"lost", "kept"}
  MaxRequests = 3
  None = None
INVARIANTS
  MailIsExact
PROPERTIES
  EndpointsGetBound
