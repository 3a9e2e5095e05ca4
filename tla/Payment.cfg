\* Texts of up to three decimals, on 64-bit and 32-bit devices.
SPECIFICATION PaySpec
CONSTANT
    Texts <- MCTexts
INVARIANTS
    PayIInv
    AlipayAsksNearlyWhatIsShown
    WeChatAsksNearlyWhatIsShown
