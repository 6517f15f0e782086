\* The command of USB_GADGET_SETUP.md:334 on a device that has just booted.
CONSTANTS
    None = None
    AnyAddress = any
    Own = own
    LinkLocal = linklocal
    Tasks = {t1}
    Inet = {own}
    Inet6 = {}
    Gateways4 = {}
    Gateways6 = {}
    OnLink <- FamilyLinks
    Elsewhere = {}
    Issued <- Configure
    Invocations <- QuickTestOnly
    MaxStarts = 1
    MaxBoots = 0
CHECK_DEADLOCK FALSE
SPECIFICATION Spec
INVARIANT QuickTestStarts
