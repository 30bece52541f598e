\* One account, new or of the demo; two browsers of its owner and one of who typed the same address.
CONSTANTS
  anna = anna
  boris = boris
  annasMail = annasMail
  laptop = laptop
  phone = phone
  office = office
  Addresses = {annasMail}
  People = {anna, boris}
  Browsers = {laptop, phone, office}
  owner <- MCOwner
  mailOf <- MCMailOf
  Window = 1
  NoAccount = NoAccount
  NoPassword = NoPassword
  Published = Published
  NoLetter = NoLetter
  NoSession = NoSession
  Never = Never
  MaxTime = 3
  MaxPasswords = 2
SPECIFICATION Spec
SYMMETRY Symmetric
INVARIANTS
  OwnersAccount
  FormIsHonoured
  ScreensAreTrue
